---------------------------- MODULE Spec2Model ----------------------------
(***************************************************************************)
(* Model of mistralrs-core/src/sequence.rs: the Sequence / SequenceGroup   *)
(* request core.                                                           *)
(*                                                                         *)
(* Three specifications share the variables and the operations:           *)
(*   Spec / FairSpec : one SequenceGroup and its member sequences, each    *)
(*                     member driven by its own thread of calls;           *)
(*   StopSpec        : one Sequence, stop evaluation (is_done);            *)
(*   TokSpec         : one Sequence, tokens, len() and the block table.    *)
(***************************************************************************)
EXTENDS Integers, Sequences, FiniteSets, TLC

(***************************************************************************)
(* Bounds of the model.                                                    *)
(***************************************************************************)
\* largest target choice count n_choices of a request
MaxChoices == 3
\* largest number of tokens a member sequence generates (one streaming step
\* for each)
MaxSteps == 2
\* layers of the model: the slots of each cache of a Sequence (550-558)
Layers == 2
\* largest prompt length
MaxPrompt == 2

Members == 1..MaxChoices

(***************************************************************************)
(* State.                                                                  *)
(***************************************************************************)
VARIABLES
    \* ---- SequenceGroup (sequence.rs 1110-1127) and its transport ----
    group,          \* the fields of the SequenceGroup
    lock,           \* holder of the Group's Mutex guard (0: free)
    chan,           \* responses sent on the request's channel, in order
    kind,           \* which response the request asks for
    closed,         \* the receiver of the request's channel is gone
    n_seqs,         \* number of member sequences created for the request
    \* ---- per member sequence ----
    pc,             \* position of the member's driver
    state,          \* Sequence.state (RwLock<SequenceState>)
    gen,            \* number of tokens the member has generated
    \* ---- history ----
    interleaved,    \* a member contributed while another was between its
                    \* own contribution and its own maybe_send_* check
    \* ---- one Sequence (sequence.rs 377-445): member 1 of its Group ----
    prompt_len,
    tokens,
    logprobs,
    cumulative_logprob,
    last_logprob,
    completion_bytes,
    last_completion_bytes_len,
    last_is_done,
    is_tmp,
    prefill_prompt_toks,
    cache0,         \* cache[0]: None or the tensor pair of layer 0
    xlora_cache0,   \* xlora_cache: NoXlora, or its slot 0 (None or a tensor)
    normal_cache,   \* normal_cache: one slot per layer
    custom_metadata,
    stop_tokens,
    stop_strings,
    max_len,
    ret,            \* what the last is_done call was given and returned
    \* ---- history of the Sequence ----
    n_added,        \* add_token calls since prompt_len was last set
    n_tmp,          \* temporary tokens now in tokens
    deltas,         \* what get_delta has handed out: the text of its Some
                    \* results in call order, the cursor after the first of
                    \* them and after the first that moved the cursor
    \* ---- Sequence: streaming cursor and scheduling ----
    stream_idx,
    scheduling_urgency,
    waitlisted_count,
    \* ---- the other sequences one scheduler holds beside this one ----
    competitors

\* the Sequence's fields that hold its tokens
tokVars == <<tokens, logprobs, cumulative_logprob, last_logprob,
             completion_bytes, last_completion_bytes_len, last_is_done,
             is_tmp, prefill_prompt_toks, custom_metadata, n_added, n_tmp>>
\* the Sequence's cache slots
cacheVars == <<cache0, xlora_cache0, normal_cache>>
\* the Sequence's stop configuration, constant after new_waiting
confVars == <<stop_tokens, stop_strings, max_len>>
\* the Sequence's streaming cursor and its urgency
cursorVars == <<stream_idx, scheduling_urgency, waitlisted_count,
                competitors, deltas>>
seqVars == <<tokVars, cacheVars, confVars, cursorVars, ret>>
\* the group, its lock and channel, and where each member is
groupVars == <<group, lock, chan, kind, closed, n_seqs, pc, state, gen, interleaved>>
vars == <<group, lock, chan, kind, closed, n_seqs, pc, state, gen, interleaved,
          prompt_len, seqVars>>

(***************************************************************************)
(* Values.                                                                 *)
(***************************************************************************)
Kinds == {"chat", "completion", "image", "speech", "raw",
          "chat_stream", "completion_stream"}
StreamKinds == {"chat_stream", "completion_stream"}

\* SequenceState (59-71); Done(reason) is written <<"Done", reason>>
Waiting == <<"Waiting">>
RunningPrompt == <<"RunningPrompt">>
RunningCompletion == <<"RunningCompletion">>
RunningPrefillPrompt == <<"RunningPrefillPrompt">>
Error == <<"Error">>
FinishedAborted == <<"FinishedAborted">>
FinishedIgnored == <<"FinishedIgnored">>
Swapped == <<"Swapped">>
Done(reason) == <<"Done", reason>>

\* StopReason (29-43)
Eos == <<"Eos">>
StopTok(t) == <<"StopTok", t>>
Length(n) == <<"Length", n>>
ModelLength(n) == <<"ModelLength", n>>
StopString(idx, pos) == <<"StopString", idx, pos>>
Canceled == <<"Canceled">>
None == <<"None">>

\* get_delta has handed out nothing yet
NoDeltas == [text |-> <<>>, first |-> None, moved |-> None]

\* usize::saturating_sub
saturating_sub(a, b) == IF a >= b THEN a - b ELSE 0

(***************************************************************************)
(* SequenceGroup::new (1130-1154).                                         *)
(***************************************************************************)
SequenceGroup_new(n_choices, is_streaming, is_chat, best_of) ==
    [ n_choices |-> n_choices,
      best_of |-> best_of,
      total_prompt_toks |-> 0,
      total_toks |-> 0,
      choices |-> <<>>,
      image_choices |-> <<>>,
      speech_pcms |-> <<>>,
      raw_choices |-> <<>>,
      completion_choices |-> <<>>,
      chat_streaming_chunks |-> <<>>,
      completion_streaming_chunks |-> <<>>,
      is_streaming |-> is_streaming,
      is_chat |-> is_chat ]

\* get_mut_group!(self): the exclusive, non re-entrant guard of the Group's
\* tokio Mutex (24-27, 437, 1029-1031).  A statement that uses it once takes
\* the guard, acts and drops it at the end of the statement: one step,
\* enabled while no guard is alive.
get_mut_group == lock = 0

\* a member that has contributed and not yet run its maybe_send_* check
Pending(s) == pc[s] \in {"update_prompt_toks", "update_total_toks", "send"}

\* the history flag after member s contributes
Contributed(s) == interleaved \/ \E t \in 1..n_seqs : t # s /\ Pending(t)


(***************************************************************************)
(* SequenceGroup::get_completion_choices (1161-1178).  A stored choice is  *)
(* <<cumulative_logprob, choice>>.                                         *)
(***************************************************************************)
\* insert_desc with a slip: a choice goes before the stored ones of its score
insert_desc_before_equal(sorted, x) ==
    LET before == {i \in 1..Len(sorted) : sorted[i][1] > x[1]}
        k == Cardinality(before)
    IN  SubSeq(sorted, 1, k) \o <<x>> \o SubSeq(sorted, k + 1, Len(sorted))

\* one insertion of the stable sort at 1165, comparing b.0 with a.0: x goes
\* behind every choice whose score is not lower
insert_desc(sorted, x) ==
    LET before == {i \in 1..Len(sorted) : sorted[i][1] >= x[1]}
        k == Cardinality(before)
    IN  SubSeq(sorted, 1, k) \o <<x>> \o SubSeq(sorted, k + 1, Len(sorted))

\* slice::sort_by (1165), a stable sort, by descending score
RECURSIVE sort_desc(_)
sort_desc(choices) ==
    IF choices = <<>> THEN <<>>
    ELSE insert_desc(sort_desc(SubSeq(choices, 1, Len(choices) - 1)),
                     choices[Len(choices)])

\* Iterator::take (1168)
take(s, n) == SubSeq(s, 1, IF n < Len(s) THEN n ELSE Len(s))

\* 1161-1178
get_completion_choices(g) ==
    IF g.best_of # None
    THEN LET choices == take(sort_desc(g.completion_choices), g.best_of[2])
         IN  [i \in 1..Len(choices) |-> choices[i][2]]
    ELSE [i \in 1..Len(g.completion_choices) |-> g.completion_choices[i][2]]

(***************************************************************************)
(* Contributions: Sequence::add_*_to_group (992-1041).  An item is named   *)
(* by the member that contributed it (its response_index).                 *)
(***************************************************************************)
\* 993
push_image_choice(g, s) == [g EXCEPT !.image_choices = Append(@, s)]
\* 997
push_speech_pcm(g, s) == [g EXCEPT !.speech_pcms = Append(@, s)]
\* 1001
push_choice(g, s) == [g EXCEPT !.choices = Append(@, s)]
\* 1006-1008
push_raw_choice(g, s) == [g EXCEPT !.raw_choices = Append(@, s)]
\* 1019-1021: (cumulative_logprob, choice)
push_completion_choice(g, s, score) ==
    [g EXCEPT !.completion_choices = Append(@, <<score, s>>)]
\* 1034: the chunk of member s for its step n
push_chat_chunk(g, s, n) == [g EXCEPT !.chat_streaming_chunks = Append(@, <<s, n>>)]
\* 1039
push_completion_chunk(g, s, n) ==
    [g EXCEPT !.completion_streaming_chunks = Append(@, <<s, n>>)]

\* update_time_info, 988 and 989: each statement takes the guard on its own
write_total_prompt_toks(g, n) == [g EXCEPT !.total_prompt_toks = n]
\* write_total_toks with a slip: the value lands in the wrong field
write_total_toks_wrong_field(g, n) == [g EXCEPT !.n_choices = n]
write_total_toks(g, n) == [g EXCEPT !.total_toks = n]

\* the driver of member s is between two calls
AtRun(s) == s \in 1..n_seqs /\ pc[s] = "run"

\* Sequence::len() of a member: its prompt and what it generated
member_len(s) == prompt_len + gen[s]

\* a non-streaming contribution of member s that is followed by
\* update_time_info (1000-1023)
Contribute(s, g2, next) ==
    /\ AtRun(s)
    /\ get_mut_group
    /\ group' = g2
    /\ pc' = [pc EXCEPT ![s] = next]
    /\ interleaved' = Contributed(s)
    /\ UNCHANGED <<lock, chan, kind, closed, n_seqs, state, prompt_len, seqVars>>

add_choice_to_group(s) ==
    /\ kind = "chat"
    /\ \E n \in 1..MaxSteps : gen' = [gen EXCEPT ![s] = n]
    /\ Contribute(s, push_choice(group, s), "update_prompt_toks")

add_raw_choice_to_group(s) ==
    /\ kind = "raw"
    /\ \E n \in 1..MaxSteps : gen' = [gen EXCEPT ![s] = n]
    /\ Contribute(s, push_raw_choice(group, s), "update_prompt_toks")

add_completion_choice_to_group(s) ==
    /\ kind = "completion"
    /\ \E n \in 1..MaxSteps : gen' = [gen EXCEPT ![s] = n]
    \* the score is cumulative_logprob: the more tokens, the lower
    /\ Contribute(s, push_completion_choice(group, s, 0 - gen'[s]),
                  "update_prompt_toks")

\* 992-998: image and speech contributions do not call update_time_info
add_image_choice_to_group(s) ==
    /\ kind = "image"
    /\ UNCHANGED gen
    /\ Contribute(s, push_image_choice(group, s), "send")

add_speech_pcm_to_group(s) ==
    /\ kind = "speech"
    /\ UNCHANGED gen
    /\ Contribute(s, push_speech_pcm(group, s), "send")

\* a streaming member pushes one chunk for each token it generates
add_streaming_chunk_choice_to_group(s) ==
    /\ kind = "chat_stream"
    /\ state[s] \notin {Done(Eos), Error}
    /\ gen[s] < MaxSteps
    /\ gen' = [gen EXCEPT ![s] = @ + 1]
    /\ Contribute(s, push_chat_chunk(group, s, gen'[s]), "update_prompt_toks")

add_streaming_completion_chunk_choice_to_group(s) ==
    /\ kind = "completion_stream"
    /\ state[s] \notin {Done(Eos), Error}
    /\ gen[s] < MaxSteps
    /\ gen' = [gen EXCEPT ![s] = @ + 1]
    /\ Contribute(s, push_completion_chunk(group, s, gen'[s]),
                  "update_prompt_toks")

\* update_time_info (975-990); wall-clock times are not modelled
update_time_info_prompt_toks(s) ==
    /\ s \in 1..n_seqs /\ pc[s] = "update_prompt_toks"
    /\ get_mut_group
    /\ group' = write_total_prompt_toks(group, prompt_len)
    /\ pc' = [pc EXCEPT ![s] = "update_total_toks"]
    /\ UNCHANGED <<lock, chan, kind, closed, n_seqs, state, gen, interleaved, prompt_len,
                   seqVars>>

update_time_info_total_toks(s) ==
    /\ s \in 1..n_seqs /\ pc[s] = "update_total_toks"
    /\ get_mut_group
    /\ group' = write_total_toks(group, member_len(s))
    /\ pc' = [pc EXCEPT ![s] = "send"]
    /\ UNCHANGED <<lock, chan, kind, closed, n_seqs, state, gen, interleaved, prompt_len,
                   seqVars>>


(***************************************************************************)
(* Emission: SequenceGroup::maybe_send_* (1202-1315).  The methods take    *)
(* the Group itself: the caller holds its guard (get_mut_group, 1029) for  *)
(* the whole call, so the test and the send are one step.                  *)
(***************************************************************************)
Response(type, items) == [type |-> type, items |-> items]

\* 1207
chat_done_ready(g) == Len(g.choices) = g.n_choices
\* 1218
raw_done_ready(g) == Len(g.raw_choices) = g.n_choices
\* image_gen_ready with a slip: <= for ==
image_gen_ready_le(g) == Len(g.image_choices) <= g.n_choices
\* 1237
image_gen_ready(g) == Len(g.image_choices) = g.n_choices
\* 1311
completion_done_ready(g) == Len(g.completion_choices) = g.n_choices
\* chat_chunks_ready with a slip: the flush comes one chunk late
chat_chunks_ready_late(g) ==
    Len(g.chat_streaming_chunks) = g.n_choices + 1 /\ g.is_streaming
\* 1268
chat_chunks_ready(g) ==
    Len(g.chat_streaming_chunks) = g.n_choices /\ g.is_streaming
\* 1284
completion_chunks_ready(g) ==
    Len(g.completion_streaming_chunks) = g.n_choices /\ g.is_streaming

\* the member's driver is about to call maybe_send_*
AtSend(s) == s \in 1..n_seqs /\ pc[s] = "send" /\ get_mut_group

Returned(s, next) ==
    /\ pc' = [pc EXCEPT ![s] = next]
    /\ UNCHANGED <<lock, kind, closed, n_seqs, state, gen, interleaved, prompt_len,
                   seqVars>>

\* Sender::send(..).await? (1208, 1222-1227, 1238, 1252-1258, 1273-1283,
\* 1293-1301, 1312): the response goes on the channel and the call returns
\* Ok(()) at the end; with the receiver gone send gives Err, which `?` returns
send(s, response, next) ==
    IF closed
    THEN chan' = chan /\ Returned(s, "failed")
    ELSE chan' = Append(chan, response) /\ Returned(s, next)

\* the client drops the receiver
close_channel ==
    /\ ~closed
    /\ closed' = TRUE
    /\ UNCHANGED <<group, lock, chan, kind, n_seqs, pc, state, gen,
                   interleaved, prompt_len, seqVars>>

\* 1202-1212; the response carries the Group's choices (get_choices, 1156)
maybe_send_chat_done_response(s) ==
    /\ kind = "chat" /\ AtSend(s)
    /\ UNCHANGED group
    /\ IF chat_done_ready(group)
       THEN send(s, Response("Done", group.choices), "done")
       ELSE chan' = chan /\ Returned(s, "done")

\* 1306-1315; the response carries get_completion_choices (1161)
maybe_send_completion_done_response(s) ==
    /\ kind = "completion" /\ AtSend(s)
    /\ UNCHANGED group
    /\ IF completion_done_ready(group)
       THEN send(s, Response("CompletionDone", get_completion_choices(group)),
                 "done")
       ELSE chan' = chan /\ Returned(s, "done")

\* 1232-1242
maybe_send_image_gen_response(s) ==
    /\ kind = "image" /\ AtSend(s)
    /\ UNCHANGED group
    /\ IF image_gen_ready(group)
       THEN send(s, Response("ImageGeneration", group.image_choices), "done")
       ELSE chan' = chan /\ Returned(s, "done")

\* 1214-1230: assert_eq!(self.raw_choices.len(), 1) inside the test
maybe_send_raw_done_response(s) ==
    /\ kind = "raw" /\ AtSend(s)
    /\ UNCHANGED group
    /\ IF raw_done_ready(group) /\ Len(group.raw_choices) # 1
       THEN chan' = chan /\ Returned(s, "panicked")
       ELSE IF raw_done_ready(group)
       THEN send(s, Response("Raw", <<group.raw_choices[1]>>), "done")
       ELSE chan' = chan /\ Returned(s, "done")

\* 1244-1260: assert_eq!(self.speech_pcms.len(), 1), no test of n_choices
maybe_send_speech_response(s) ==
    /\ kind = "speech" /\ AtSend(s)
    /\ UNCHANGED group
    /\ IF Len(group.speech_pcms) # 1
       THEN chan' = chan /\ Returned(s, "panicked")
       ELSE send(s, Response("Speech", <<group.speech_pcms[1]>>), "done")

\* 1262-1304: std::mem::swap empties the buffer before it is sent
maybe_send_streaming_response(s) ==
    /\ kind \in StreamKinds /\ AtSend(s)
    /\ IF chat_chunks_ready(group)
       THEN /\ group' = [group EXCEPT !.chat_streaming_chunks = <<>>]
            /\ send(s, Response("Chunk", group.chat_streaming_chunks), "run")
       ELSE IF completion_chunks_ready(group)
       THEN /\ group' = [group EXCEPT !.completion_streaming_chunks = <<>>]
            /\ send(s, Response("CompletionChunk",
                                group.completion_streaming_chunks), "run")
       ELSE UNCHANGED <<chan, group>> /\ Returned(s, "run")

(***************************************************************************)
(* Sequence::set_state (869-874).                                          *)
(***************************************************************************)
\* set_state with a slip: Error and Done(_) are kept once entered
set_state_keeping_terminal(s, st) ==
    /\ AtRun(s)
    /\ st # Error
    /\ state' = [state EXCEPT
                    ![s] = IF @ = Error \/ @[1] = "Done" THEN @ ELSE st]
    /\ UNCHANGED <<group, lock, chan, kind, closed, n_seqs, pc, gen, interleaved,
                   prompt_len, seqVars>>

\* 873 for a state other than Error: only the RwLock'd state is written
set_state(s, st) ==
    /\ AtRun(s)
    /\ st # Error
    /\ state' = [state EXCEPT ![s] = st]
    /\ UNCHANGED <<group, lock, chan, kind, closed, n_seqs, pc, gen, interleaved,
                   prompt_len, seqVars>>

\* 871, the assigned value: get_mut_group!(self).n_choices.saturating_sub(1)
\* is evaluated first.  Its guard is a temporary of the assignment
\* statement: it lives until the statement ends.
set_state_Error_value(s) ==
    /\ AtRun(s)
    /\ get_mut_group
    /\ lock' = s
    /\ pc' = [pc EXCEPT ![s] = "set_state_assign"]
    /\ UNCHANGED <<group, chan, kind, closed, n_seqs, state, gen, interleaved,
                   prompt_len, seqVars>>

\* what 871 stores and 873 writes once the assignee's guard is taken; the
\* guard of the value has kept n_choices as it was read
error_n_choices(g) == [g EXCEPT !.n_choices = saturating_sub(@, 1)]

\* 871, the assignee: get_mut_group!(self).n_choices is evaluated next and
\* waits for the guard; when it has it, n_choices is written, both guards
\* are dropped and 873 stores the state.
set_state_Error_assign(s) ==
    /\ s \in 1..n_seqs /\ pc[s] = "set_state_assign"
    /\ IF get_mut_group
       THEN /\ group' = error_n_choices(group)
            /\ lock' = 0
            /\ state' = [state EXCEPT ![s] = Error]
            /\ pc' = [pc EXCEPT ![s] = "done"]
            /\ UNCHANGED <<chan, kind, closed, n_seqs, gen, interleaved, prompt_len,
                           seqVars>>
       ELSE UNCHANGED vars

(***************************************************************************)
(* LogicalTokenBlock (paged_attention, imported at line 10): a block of    *)
(* fixed capacity block_size, filled from the front.                       *)
(***************************************************************************)
Some(x) == <<"Some", x>>
Panic == [variant |-> "panic"]

LogicalTokenBlock_new(block_size) == [toks |-> <<>>, block_size |-> block_size]
is_full(b) == Len(b.toks) = b.block_size
is_empty(b) == Len(b.toks) = 0
append_token_id(b, tok) == [b EXCEPT !.toks = Append(@, tok)]
\* popping a block that holds no token is a failure
pop_token(b) ==
    IF is_empty(b) THEN Panic
    ELSE [b EXCEPT !.toks = SubSeq(@, 1, Len(@) - 1)]

(***************************************************************************)
(* SequenceCustomMetadata (78-161).                                        *)
(***************************************************************************)
\* SequenceCustomMetadata::None (84)
NoMetadata == [variant |-> "None"]
\* SequenceCustomMetadata::PagedAttention (79-83)
PagedAttention(blocks, prefill, block_size) ==
    [variant |-> "PagedAttention",
     logical_token_blocks |-> blocks,
     physical_blocks_prefill |-> prefill,
     block_size |-> block_size]

\* util_append_token_to_blocks with a slip: no new block after a full one
util_append_token_to_blocks_no_new(tok, logical_token_blocks, block_size) ==
    IF logical_token_blocks = <<>>
    THEN <<append_token_id(LogicalTokenBlock_new(block_size), tok)>>
    ELSE [logical_token_blocks EXCEPT
             ![Len(logical_token_blocks)] = append_token_id(@, tok)]

\* 99-120
util_append_token_to_blocks(tok, logical_token_blocks, block_size) ==
    LET appended ==
            IF logical_token_blocks = <<>>
            THEN <<append_token_id(LogicalTokenBlock_new(block_size), tok)>>
            ELSE [logical_token_blocks EXCEPT
                     ![Len(logical_token_blocks)] = append_token_id(@, tok)]
    IN  IF is_full(appended[Len(appended)])
        THEN Append(appended, LogicalTokenBlock_new(block_size))
        ELSE appended

\* 123-134
append_token_to_blocks(cm, tok) ==
    IF cm.variant = "PagedAttention"
    THEN [cm EXCEPT !.logical_token_blocks =
                        util_append_token_to_blocks(tok, @, cm.block_size)]
    ELSE cm

\* pop_token_from_blocks with a slip: an empty table is left as it is
pop_token_from_blocks_lenient(cm) ==
    IF cm.variant = "PagedAttention"
    THEN LET blocks == cm.logical_token_blocks IN
         IF blocks = <<>> THEN cm
         ELSE IF pop_token(blocks[Len(blocks)]) = Panic THEN cm
         ELSE [cm EXCEPT !.logical_token_blocks[Len(blocks)] = pop_token(@)]
    ELSE cm

\* 136-148: last_mut().unwrap() fails on an empty table
pop_token_from_blocks(cm) ==
    IF cm.variant = "PagedAttention"
    THEN LET blocks == cm.logical_token_blocks IN
         IF blocks = <<>> THEN Panic
         ELSE IF pop_token(blocks[Len(blocks)]) = Panic THEN Panic
         ELSE [cm EXCEPT !.logical_token_blocks[Len(blocks)] = pop_token(@)]
    ELSE cm

\* 150-154
RECURSIVE append_tokens_to_blocks(_, _)
append_tokens_to_blocks(cm, toks) ==
    IF toks = <<>> THEN cm
    ELSE append_tokens_to_blocks(append_token_to_blocks(cm, Head(toks)),
                                 Tail(toks))

\* 156-160: the table after the pops, and whether every pop succeeded; the
\* pops made before a failing one stay
RECURSIVE remove_tokens_from_blocks(_, _)
remove_tokens_from_blocks(cm, n) ==
    IF n = 0 THEN <<cm, TRUE>>
    ELSE IF pop_token_from_blocks(cm) = Panic THEN <<cm, FALSE>>
    ELSE remove_tokens_from_blocks(pop_token_from_blocks(cm), n - 1)

\* 746-755
clear_blocks(cm) ==
    IF cm.variant = "PagedAttention"
    THEN [cm EXCEPT !.logical_token_blocks = <<>>]
    ELSE cm

(***************************************************************************)
(* Sequence: tokens and length (496-600, 658-678, 738-859).                *)
(***************************************************************************)
\* 718-723
get_toks ==
    IF prefill_prompt_toks # None THEN prefill_prompt_toks[2] ELSE tokens

\* len with a slip: the caches are read although is_tmp is set
len_ignoring_is_tmp ==
    IF prefill_prompt_toks # None THEN Len(prefill_prompt_toks[2])
    ELSE IF xlora_cache0 \notin {<<"NoXlora">>, None} THEN xlora_cache0[2] + 1
    ELSE IF cache0 # None THEN cache0[2] + 1
    ELSE Len(tokens)

\* 658-678: a tensor in slot 0 is written Some(dims()[2])
len ==
    IF prefill_prompt_toks # None THEN Len(prefill_prompt_toks[2])
    ELSE IF is_tmp THEN Len(tokens)
    ELSE IF xlora_cache0 \notin {<<"NoXlora">>, None} THEN xlora_cache0[2] + 1
    ELSE IF cache0 # None THEN cache0[2] + 1
    ELSE Len(tokens)

\* the driver of the Sequence is between two calls
SeqAtRun == AtRun(1)

\* the call failed: the driver's thread of calls ends there
Failed == pc' = [pc EXCEPT ![1] = "panicked"]

\* Sequence::new_waiting (496-600)
new_waiting(toks, block_size, stop_toks, stop_strs, maxlen, is_xlora) ==
    /\ tokens = toks
    /\ prompt_len = Len(toks)
    /\ custom_metadata =
          append_tokens_to_blocks(
              IF block_size # None
              THEN PagedAttention(<<>>, None, block_size[2])
              ELSE NoMetadata,
              toks)
    /\ logprobs = <<>>
    /\ cumulative_logprob = 0
    /\ last_logprob = 0
    /\ completion_bytes = <<>>
    /\ last_completion_bytes_len = 0
    /\ last_is_done = None
    /\ is_tmp = FALSE
    /\ prefill_prompt_toks = None
    /\ cache0 = None
    /\ xlora_cache0 = IF is_xlora THEN None ELSE <<"NoXlora">>
    /\ normal_cache = [i \in 1..Layers |-> None]
    /\ stop_tokens = stop_toks
    /\ stop_strings = stop_strs
    /\ max_len = maxlen
    /\ ret = None
    /\ n_added = 0
    /\ n_tmp = 0
    /\ stream_idx = 0
    /\ deltas = NoDeltas
    /\ scheduling_urgency = 0
    /\ waitlisted_count = 0

\* stopped_by_token with a slip: only Eos counts
stopped_by_token_eos_only(reason) == reason[1] = "Eos"

\* 838-841
stopped_by_token(reason) == reason[1] \in {"Eos", "StopTok"}

\* 832-859
add_token(tok, logprob, bytes, reason) ==
    /\ SeqAtRun
    /\ completion_bytes' =
          IF stopped_by_token(reason) THEN completion_bytes
          ELSE completion_bytes \o bytes
    /\ last_completion_bytes_len' =
          IF stopped_by_token(reason) THEN last_completion_bytes_len
          ELSE Len(bytes)
    /\ last_logprob' = logprob
    /\ last_is_done' = reason
    /\ custom_metadata' = append_token_to_blocks(custom_metadata, tok)
    /\ cumulative_logprob' = cumulative_logprob + logprob
    /\ tokens' = Append(tokens, tok)
    /\ logprobs' = Append(logprobs, <<tok, logprob>>)
    /\ prefill_prompt_toks' = None
    /\ n_added' = n_added + 1
    /\ ret' = None
    /\ UNCHANGED <<groupVars, prompt_len, is_tmp, n_tmp, cacheVars, confVars, cursorVars>>

\* 807-809
set_prefill_toks(toks) ==
    /\ SeqAtRun
    /\ prefill_prompt_toks' = Some(toks)
    /\ UNCHANGED <<groupVars, prompt_len, tokens, logprobs, cumulative_logprob,
                   last_logprob, completion_bytes, last_completion_bytes_len,
                   last_is_done, is_tmp, custom_metadata, n_added, n_tmp,
                   cacheVars, confVars, cursorVars, ret>>

\* 812-814
reset_prefill_toks ==
    /\ SeqAtRun
    /\ prefill_prompt_toks' = None
    /\ UNCHANGED <<groupVars, prompt_len, tokens, logprobs, cumulative_logprob,
                   last_logprob, completion_bytes, last_completion_bytes_len,
                   last_is_done, is_tmp, custom_metadata, n_added, n_tmp,
                   cacheVars, confVars, cursorVars, ret>>

\* prefill_v2_normal with a slip: the state is left as it is
prefill_v2_normal_keeping_state(cache, toks) ==
    /\ SeqAtRun
    /\ normal_cache' = cache
    /\ prefill_prompt_toks' = Some(toks)
    /\ UNCHANGED <<groupVars, prompt_len, tokens, logprobs,
                   cumulative_logprob, last_logprob, completion_bytes,
                   last_completion_bytes_len, last_is_done, is_tmp,
                   custom_metadata, n_added, n_tmp, cache0, xlora_cache0,
                   confVars, cursorVars, ret>>

\* 620-631: token_offset is read by the model runner only
prefill_v2_normal(cache, toks) ==
    /\ SeqAtRun
    /\ normal_cache' = cache
    /\ prefill_prompt_toks' = Some(toks)
    /\ state' = [state EXCEPT ![1] = RunningPrefillPrompt]
    /\ UNCHANGED <<group, lock, chan, kind, closed, n_seqs, pc, gen,
                   interleaved, prompt_len, tokens, logprobs,
                   cumulative_logprob, last_logprob, completion_bytes,
                   last_completion_bytes_len, last_is_done, is_tmp,
                   custom_metadata, n_added, n_tmp, cache0, xlora_cache0,
                   confVars, cursorVars, ret>>

\* 633-655: the block engine's tables replace the Sequence's own
prefill_v2_paged(logical_blocks, physical_blocks, toks) ==
    /\ SeqAtRun
    /\ prefill_prompt_toks' = Some(toks)
    /\ state' = [state EXCEPT ![1] = RunningPrefillPrompt]
    /\ custom_metadata' =
          IF custom_metadata.variant = "PagedAttention"
          THEN [custom_metadata EXCEPT
                   !.logical_token_blocks = logical_blocks,
                   !.physical_blocks_prefill = Some(physical_blocks)]
          ELSE custom_metadata
    /\ UNCHANGED <<group, lock, chan, kind, closed, n_seqs, pc, gen,
                   interleaved, prompt_len, tokens, logprobs,
                   cumulative_logprob, last_logprob, completion_bytes,
                   last_completion_bytes_len, last_is_done, is_tmp,
                   n_added, n_tmp, cacheVars, confVars, cursorVars, ret>>

\* 817-822
add_tmp_tok(tok) ==
    /\ SeqAtRun
    /\ is_tmp' = TRUE
    /\ tokens' = Append(tokens, tok)
    /\ custom_metadata' = append_token_to_blocks(custom_metadata, tok)
    /\ n_tmp' = n_tmp + 1
    /\ UNCHANGED <<groupVars, prompt_len, logprobs, cumulative_logprob,
                   last_logprob, completion_bytes, last_completion_bytes_len,
                   last_is_done, prefill_prompt_toks, n_added,
                   cacheVars, confVars, cursorVars, ret>>

\* 825-830: the tokens are truncated before the blocks are popped; a pop
\* that fails ends the call there.  With n > tokens.len() the subtraction
\* of 828 overflows: a build with overflow checks fails there, a build
\* without them wraps to a length that truncates nothing and goes on.
remove_tmp_tok(n) ==
    /\ SeqAtRun
    /\ is_tmp' = FALSE
    /\ IF n <= Len(tokens)
       THEN /\ tokens' = SubSeq(tokens, 1, Len(tokens) - n)
            /\ custom_metadata' = remove_tokens_from_blocks(custom_metadata, n)[1]
            /\ pc' = IF remove_tokens_from_blocks(custom_metadata, n)[2]
                     THEN pc
                     ELSE [pc EXCEPT ![1] = "panicked"]
            /\ n_tmp' = n_tmp - n
       ELSE /\ tokens' = tokens
            /\ n_tmp' = n_tmp
            /\ \/ Failed /\ custom_metadata' = custom_metadata
               \/ /\ custom_metadata' =
                        remove_tokens_from_blocks(custom_metadata, n)[1]
                  /\ pc' = IF remove_tokens_from_blocks(custom_metadata, n)[2]
                           THEN pc
                           ELSE [pc EXCEPT ![1] = "panicked"]
    /\ UNCHANGED <<group, lock, chan, kind, closed, n_seqs, state, gen, interleaved,
                   prompt_len, logprobs, cumulative_logprob,
                   last_logprob, completion_bytes, last_completion_bytes_len,
                   last_is_done, prefill_prompt_toks, n_added,
                   cacheVars, confVars, cursorVars, ret>>

\* 738-764; the block engine (759-763) keeps its own tables
set_toks_and_reallocate(toks) ==
    /\ SeqAtRun
    /\ tokens' = toks
    /\ prompt_len' = Len(toks)
    /\ custom_metadata' =
          append_tokens_to_blocks(clear_blocks(custom_metadata), toks)
    /\ n_added' = 0
    /\ n_tmp' = 0
    /\ UNCHANGED <<groupVars, logprobs, cumulative_logprob,
                   last_logprob, completion_bytes, last_completion_bytes_len,
                   last_is_done, is_tmp, prefill_prompt_toks,
                   cacheVars, confVars, cursorVars, ret>>

\* the model runner stores the layer-0 cache of a forward pass over the
\* tokens through cache() (782-784), or drops it
write_cache(c) ==
    /\ SeqAtRun
    /\ cache0' = c
    /\ UNCHANGED <<groupVars, prompt_len, tokVars, xlora_cache0, normal_cache,
                   confVars, cursorVars, ret>>

\* the same through xlora_cache() (790-792), which exists only in X-LoRA mode
write_xlora_cache(c) ==
    /\ SeqAtRun
    /\ IF xlora_cache0 # <<"NoXlora">>
       THEN xlora_cache0' = c /\ UNCHANGED pc
       ELSE Failed /\ UNCHANGED xlora_cache0
    /\ UNCHANGED <<group, lock, chan, kind, closed, n_seqs, state, gen, interleaved,
                   prompt_len, tokVars, cache0, normal_cache, confVars,
                   cursorVars, ret>>

(***************************************************************************)
(* Sequence::get_delta / peek_delta (939-965).  Text is a sequence of code *)
(* points; bytes are 0..127 (ASCII), 194..223 (first of two), 225..236 and *)
(* 238..239 (first of three) and 128..191 (continuation).                  *)
(***************************************************************************)
\* U+FFFD, the replacement character
Replacement == 65533
Space == 32

IsContinuation(b) == b >= 128 /\ b <= 191
IsLead2(b) == b >= 194 /\ b <= 223
IsLead3(b) == b >= 225 /\ b <= 239 /\ b # 237

\* String::from_utf8_lossy (952): each maximal ill-formed part becomes one
\* U+FFFD
RECURSIVE from_utf8_lossy(_)
from_utf8_lossy(bs) ==
    IF bs = <<>> THEN <<>>
    ELSE LET b == bs[1]
             rest(k) == from_utf8_lossy(SubSeq(bs, k + 1, Len(bs)))
         IN  IF b < 128 THEN <<b>> \o rest(1)
             ELSE IF IsLead2(b)
             THEN IF Len(bs) >= 2 /\ IsContinuation(bs[2])
                  THEN <<(b - 192) * 64 + (bs[2] - 128)>> \o rest(2)
                  ELSE <<Replacement>> \o rest(1)
             ELSE IF IsLead3(b)
             THEN IF Len(bs) >= 2 /\ IsContinuation(bs[2])
                  THEN IF Len(bs) >= 3 /\ IsContinuation(bs[3])
                       THEN <<(b - 224) * 4096 + (bs[2] - 128) * 64
                                + (bs[3] - 128)>> \o rest(3)
                       ELSE <<Replacement>> \o rest(2)
                  ELSE <<Replacement>> \o rest(1)
             ELSE <<Replacement>> \o rest(1)

\* str::trim_start (962)
RECURSIVE trim_start(_)
trim_start(s) ==
    IF s # <<>> /\ s[1] = Space THEN trim_start(Tail(s)) ELSE s

\* str::ends_with (954)
ends_with(s, c) == s # <<>> /\ s[Len(s)] = c

\* peek_delta with a slip: nothing new gives None
peek_delta_none_when_empty ==
    LET new_decoded ==
            from_utf8_lossy(SubSeq(completion_bytes, stream_idx + 1,
                                   Len(completion_bytes)))
    IN  IF new_decoded = <<>> \/ ends_with(new_decoded, Replacement) THEN None
        ELSE IF stream_idx = 0 THEN Some(trim_start(new_decoded))
        ELSE Some(new_decoded)

\* 950-965, the value returned (every return is Ok)
peek_delta ==
    LET is_first == stream_idx = 0
        new_decoded ==
            from_utf8_lossy(SubSeq(completion_bytes, stream_idx + 1,
                                   Len(completion_bytes)))
    IN  IF ends_with(new_decoded, Replacement) THEN None
        ELSE IF is_first THEN Some(trim_start(new_decoded))
        ELSE Some(new_decoded)

\* get_delta_stream_idx with a slip: a withheld delta rewinds the cursor
get_delta_stream_idx_rewinding(new_decoded) ==
    IF new_decoded # None THEN Len(completion_bytes) ELSE 0

\* get_delta_stream_idx with a slip: the cursor moves on every call
get_delta_stream_idx_always(new_decoded) == Len(completion_bytes)

\* 943-945
get_delta_stream_idx(new_decoded) ==
    IF new_decoded # None THEN Len(completion_bytes) ELSE stream_idx

\* 939-947
get_delta ==
    /\ SeqAtRun
    /\ stream_idx' = get_delta_stream_idx(peek_delta)
    /\ ret' = <<"get_delta", peek_delta>>
    /\ deltas' = IF peek_delta = None THEN deltas
                 ELSE [text  |-> deltas.text \o peek_delta[2],
                       first |-> IF deltas.first = None THEN Some(stream_idx')
                                 ELSE deltas.first,
                       moved |-> IF deltas.moved = None /\ stream_idx' > 0
                                 THEN Some(stream_idx') ELSE deltas.moved]
    /\ UNCHANGED <<groupVars, prompt_len, tokVars, cacheVars, confVars,
                   scheduling_urgency, waitlisted_count, competitors>>

\* a call of peek_delta (950-965)
peek_delta_call ==
    /\ SeqAtRun
    /\ ret' = <<"peek_delta", peek_delta>>
    /\ UNCHANGED <<groupVars, prompt_len, tokVars, cacheVars, confVars,
                   cursorVars>>

(***************************************************************************)
(* BlockEngineSequence for Sequence (447-492).                             *)
(***************************************************************************)
\* blocks_to_add_new_tok_macro with a slip: an empty last block counts as
\* space
blocks_to_add_new_tok_macro_empty_is_space(logical_token_blocks) ==
    IF /\ logical_token_blocks # <<>>
       /\ is_full(logical_token_blocks[Len(logical_token_blocks)])
    THEN 1
    ELSE 0

\* blocks_to_add_new_tok! (87-97)
blocks_to_add_new_tok_macro(logical_token_blocks) ==
    IF ~(/\ logical_token_blocks # <<>>
         /\ \/ is_full(logical_token_blocks[Len(logical_token_blocks)])
            \/ is_empty(logical_token_blocks[Len(logical_token_blocks)]))
    THEN 0
    ELSE 1

\* 448-459: without a block table the match arm is unreachable!()
blocks_to_add_new_tok ==
    /\ SeqAtRun
    /\ IF custom_metadata.variant = "PagedAttention"
       THEN /\ ret' = <<"blocks_to_add_new_tok",
                        blocks_to_add_new_tok_macro(
                            custom_metadata.logical_token_blocks)>>
            /\ UNCHANGED pc
       ELSE Failed /\ UNCHANGED ret
    /\ UNCHANGED <<group, lock, chan, kind, closed, n_seqs, state, gen, interleaved,
                   prompt_len, tokVars, cacheVars, confVars, cursorVars>>

\* take_physical_blocks_prefill with a slip: the handles are returned but
\* stay pending
take_physical_blocks_prefill_keeping ==
    /\ SeqAtRun
    /\ ret' = <<"take_physical_blocks_prefill",
                IF custom_metadata.variant = "PagedAttention"
                THEN custom_metadata.physical_blocks_prefill
                ELSE None>>
    /\ UNCHANGED <<groupVars, prompt_len, tokVars, cacheVars, confVars,
                   cursorVars>>

\* 476-485: Option::take leaves None behind
take_physical_blocks_prefill ==
    /\ SeqAtRun
    /\ ret' = <<"take_physical_blocks_prefill",
                IF custom_metadata.variant = "PagedAttention"
                THEN custom_metadata.physical_blocks_prefill
                ELSE None>>
    /\ custom_metadata' =
          IF custom_metadata.variant = "PagedAttention"
          THEN [custom_metadata EXCEPT !.physical_blocks_prefill = None]
          ELSE custom_metadata
    /\ UNCHANGED <<groupVars, prompt_len, tokens, logprobs,
                   cumulative_logprob, last_logprob, completion_bytes,
                   last_completion_bytes_len, last_is_done, is_tmp,
                   prefill_prompt_toks, n_added, n_tmp, cacheVars, confVars,
                   cursorVars>>

\* 487-491: the count before the call is returned
increment_waitlist_count ==
    /\ SeqAtRun
    /\ waitlisted_count' = waitlisted_count + 1
    /\ ret' = <<"increment_waitlist_count", waitlisted_count>>
    /\ UNCHANGED <<groupVars, prompt_len, tokVars, cacheVars, confVars,
                   stream_idx, deltas, scheduling_urgency, competitors>>

\* 465-474: without a block table the match arm is unreachable!()
logical_token_blocks ==
    /\ SeqAtRun
    /\ IF custom_metadata.variant = "PagedAttention"
       THEN /\ ret' = <<"logical_token_blocks",
                        custom_metadata.logical_token_blocks>>
            /\ UNCHANGED pc
       ELSE Failed /\ UNCHANGED ret
    /\ UNCHANGED <<group, lock, chan, kind, closed, n_seqs, state, gen, interleaved,
                   prompt_len, tokVars, cacheVars, confVars, cursorVars>>

(***************************************************************************)
(* Sequence::add_urgency, reset_urgency, compute_priority (602-618).  An   *)
(* f64 that is -inf or a finite value >= 0 below 16 is held exactly: a     *)
(* finite value is (hi * 2^26 + lo) * 2^-52 with lo < 2^26, and has at     *)
(* most 53 significant bits.                                               *)
(***************************************************************************)
Limb == 67108864

NegInf == [class |-> "neg_inf", hi |-> 0, lo |-> 0]
Finite(hi, lo) == [class |-> "finite", hi |-> hi, lo |-> lo]

RECURSIVE pow2(_)
pow2(k) == IF k = 0 THEN 1 ELSE 2 * pow2(k - 1)

\* bits of hi * 2^26 + lo beyond the 53 an f64 keeps
excess_bits(hi) ==
    IF hi < 2 * Limb THEN 0
    ELSE IF hi < 4 * Limb THEN 1
    ELSE IF hi < 8 * Limb THEN 2
    ELSE 3

\* round to nearest, ties to even: the rounding of every f64 operation
round_f64(hi, lo) ==
    LET unit == pow2(excess_bits(hi))
        rem  == lo % unit
        down == lo - rem
        up   == (rem * 2 > unit) \/ (rem * 2 = unit /\ (lo \div unit) % 2 = 1)
        lo2  == IF up THEN down + unit ELSE down
    IN  IF lo2 = Limb THEN Finite(hi + 1, 0) ELSE Finite(hi, lo2)

\* 617, `as f64` of a usize below 16
as_f64(n) == Finite(n * Limb, 0)

\* 617, f64::log2 of an integer-valued f64: -inf at 0, and the f64 nearest
\* to the logarithm for 1..16
log2(x) ==
    LET n == x.hi \div Limb
        hi == <<0, 67108864, 106365032, 134217728, 155821956, 173473896,
                188398399, 201326592, 212730065, 222930820, 232158526,
                240582760, 248332305, 255507263, 262186989, 268435456>>
        lo == <<0, 0, 60800360, 0, 49497826, 60800360, 44566618, 0,
                54491856, 49497826, 834180, 60800360, 52675686, 44566618,
                43189324, 0>>
    IN  IF n = 0 THEN NegInf ELSE Finite(hi[n], lo[n])

\* 617, f64 addition
f64_add(a, b) ==
    IF a.class = "neg_inf" \/ b.class = "neg_inf" THEN NegInf
    ELSE LET lo == a.lo + b.lo
         IN  round_f64(a.hi + b.hi + (lo \div Limb), lo % Limb)

\* a < b on f64
f64_lt(a, b) ==
    /\ b.class = "finite"
    /\ \/ a.class = "neg_inf"
       \/ a.hi < b.hi
       \/ a.hi = b.hi /\ a.lo < b.lo

\* priority_of with a slip: the length is added as it is, without log2
priority_of_linear(urgency, length) ==
    f64_add(as_f64(urgency), as_f64(length))

\* priority_of with a slip: the urgency is left out of the sum
priority_of_length_only(urgency, length) ==
    f64_add(as_f64(0), log2(as_f64(length)))

\* 615-618 for a Sequence of the given urgency and length
priority_of(urgency, length) == f64_add(as_f64(urgency), log2(as_f64(length)))

\* 615-618
compute_priority == priority_of(scheduling_urgency, len)

\* add_urgency with a slip: the counter is raised by two
add_urgency_by_two ==
    /\ SeqAtRun
    /\ scheduling_urgency' = scheduling_urgency + 2
    /\ UNCHANGED <<groupVars, prompt_len, tokVars, cacheVars, confVars,
                   stream_idx, deltas, waitlisted_count, competitors, ret>>

\* 602-605
add_urgency ==
    /\ SeqAtRun
    /\ scheduling_urgency' = scheduling_urgency + 1
    /\ UNCHANGED <<groupVars, prompt_len, tokVars, cacheVars, confVars,
                   stream_idx, deltas, waitlisted_count, competitors, ret>>

\* 607-610
reset_urgency ==
    /\ SeqAtRun
    /\ scheduling_urgency' = 0
    /\ UNCHANGED <<groupVars, prompt_len, tokVars, cacheVars, confVars,
                   stream_idx, deltas, waitlisted_count, competitors, ret>>

\* a call of compute_priority (615-618)
compute_priority_call ==
    /\ SeqAtRun
    /\ ret' = <<"compute_priority", compute_priority>>
    /\ UNCHANGED <<groupVars, prompt_len, tokVars, cacheVars, confVars,
                   cursorVars>>

(***************************************************************************)
(* Sequence::is_done (880-920).                                            *)
(***************************************************************************)
\* galil_seiferas::gs_find (909): offset of the first occurrence of pat
RECURSIVE gs_find_from(_, _, _)
gs_find_from(text, pat, i) ==
    IF i + Len(pat) > Len(text) THEN None
    ELSE IF SubSeq(text, i + 1, i + Len(pat)) = pat THEN Some(i)
    ELSE gs_find_from(text, pat, i + 1)
gs_find(text, pat) == gs_find_from(text, pat, 0)

\* find_stop_string with a slip: the strings are tried from the last one
RECURSIVE find_stop_string_backwards(_, _, _)
find_stop_string_backwards(strs, bytes, idx) ==
    IF idx >= Len(strs) THEN None
    ELSE LET j == Len(strs) - 1 - idx
             pos == gs_find(bytes, strs[j + 1]) IN
         IF pos # None THEN StopString(j, pos[2])
         ELSE find_stop_string_backwards(strs, bytes, idx + 1)

\* 907-918: the loop over stop_strings, from index idx
RECURSIVE find_stop_string(_, _, _)
find_stop_string(strs, bytes, idx) ==
    IF idx >= Len(strs) THEN None
    ELSE LET pos == gs_find(bytes, strs[idx + 1]) IN
         IF pos # None THEN StopString(idx, pos[2])
         ELSE find_stop_string(strs, bytes, idx + 1)

\* 900, 904
generated_length == saturating_sub(Len(tokens), prompt_len)

\* length_reached with a slip: the token about to be added is not counted
length_reached_late == max_len # None /\ generated_length >= max_len[2]
\* 899-900
length_reached == max_len # None /\ generated_length + 1 >= max_len[2]

\* is_done with a slip: cancellation is tested after the stop tokens
is_done_stop_tok_first(st, tok, eos_tok, max_model_len) ==
    LET is_eos == IF eos_tok = None THEN FALSE ELSE tok \in eos_tok[2] IN
    IF is_eos THEN Eos
    ELSE IF tok \in stop_tokens THEN StopTok(tok)
    ELSE IF st = Done(Canceled) THEN Canceled
    ELSE IF length_reached THEN Length(max_len[2])
    ELSE IF generated_length >= max_model_len THEN ModelLength(max_model_len)
    ELSE find_stop_string(stop_strings, completion_bytes, 0)

\* 880-920; st is the state read at 893
is_done(st, tok, eos_tok, max_model_len) ==
    LET is_eos == IF eos_tok = None THEN FALSE ELSE tok \in eos_tok[2] IN
    IF is_eos THEN Eos
    ELSE IF st = Done(Canceled) THEN Canceled
    ELSE IF tok \in stop_tokens THEN StopTok(tok)
    ELSE IF length_reached THEN Length(max_len[2])
    ELSE IF generated_length >= max_model_len THEN ModelLength(max_model_len)
    ELSE find_stop_string(stop_strings, completion_bytes, 0)

\* a call of is_done; the driver keeps the token and the result for add_token
is_done_call(tok, eos_tok, max_model_len) ==
    /\ SeqAtRun
    /\ ret' = <<"is_done", tok, is_done(state[1], tok, eos_tok, max_model_len)>>
    /\ UNCHANGED <<groupVars, prompt_len, tokVars, cacheVars, confVars, cursorVars>>

(***************************************************************************)
(* The request: SequenceGroup::new(n, is_streaming, is_chat, _) and its n  *)
(* member sequences, created Waiting (549).                                *)
(***************************************************************************)
GroupInit ==
    /\ kind \in Kinds
    /\ n_seqs \in 1..MaxChoices
    \* best_of is read for completion responses only
    /\ \E best_of \in IF kind = "completion"
                       THEN {None} \cup {Some(k) : k \in 0..MaxChoices}
                       ELSE {None} :
          group = SequenceGroup_new(n_seqs, kind \in StreamKinds,
                                    kind \in {"chat", "chat_stream"}, best_of)
    /\ lock = 0
    /\ chan = <<>>
    /\ closed = FALSE
    /\ pc = [s \in Members |-> "run"]
    /\ state = [s \in Members |-> Waiting]
    /\ gen = [s \in Members |-> 0]
    /\ interleaved = FALSE

\* the fields of a Sequence of a request whose tokens are not followed
NoSequence ==
    /\ tokens = <<>>
    /\ logprobs = <<>>
    /\ cumulative_logprob = 0
    /\ last_logprob = 0
    /\ completion_bytes = <<>>
    /\ last_completion_bytes_len = 0
    /\ last_is_done = None
    /\ is_tmp = FALSE
    /\ prefill_prompt_toks = None
    /\ cache0 = None
    /\ xlora_cache0 = <<"NoXlora">>
    /\ normal_cache = <<>>
    /\ custom_metadata = NoMetadata
    /\ stop_tokens = {}
    /\ stop_strings = <<>>
    /\ max_len = None
    /\ ret = None
    /\ n_added = 0
    /\ n_tmp = 0
    /\ stream_idx = 0
    /\ deltas = NoDeltas
    /\ scheduling_urgency = 0
    /\ waitlisted_count = 0
    /\ competitors = <<>>

Init ==
    /\ GroupInit
    \* the members of one request share its prompt
    /\ prompt_len = MaxPrompt
    /\ NoSequence

\* the states the driver gives a member of the request
DriverStates(s) ==
    IF kind \in StreamKinds /\ gen[s] >= 1 /\ state[s] = Waiting
    THEN {Done(Eos)}
    ELSE {}

MemberStep(s) ==
    \/ add_choice_to_group(s)
    \/ add_raw_choice_to_group(s)
    \/ add_completion_choice_to_group(s)
    \/ add_image_choice_to_group(s)
    \/ add_speech_pcm_to_group(s)
    \/ add_streaming_chunk_choice_to_group(s)
    \/ add_streaming_completion_chunk_choice_to_group(s)
    \/ update_time_info_prompt_toks(s)
    \/ update_time_info_total_toks(s)
    \/ maybe_send_chat_done_response(s)
    \/ maybe_send_completion_done_response(s)
    \/ maybe_send_image_gen_response(s)
    \/ maybe_send_raw_done_response(s)
    \/ maybe_send_speech_response(s)
    \/ maybe_send_streaming_response(s)
    \/ \E st \in DriverStates(s) : set_state(s, st)
    \/ set_state_Error_value(s)
    \/ set_state_Error_assign(s)

Next == \E s \in Members : MemberStep(s)

Spec == Init /\ [][Next]_vars

\* every member's driver keeps running
FairSpec == Spec /\ \A s \in Members : WF_vars(MemberStep(s))

\* the request with a client that may go away at any moment
CloseNext == Next \/ close_channel

CloseSpec == Init /\ [][CloseNext]_vars


(***************************************************************************)
(* One Sequence and its stop rules (StopSpec): the driver asks is_done     *)
(* for a sampled token, adds the token with the answer, and may set the    *)
(* state in between.                                                       *)
(***************************************************************************)
MaxTok == 2
MaxToks == 4
MaxLen == 3
MaxModelLen == 4
MaxBlockSize == 2

Toks == 1..MaxTok
\* the bytes a token decodes to: token 1 is "A", token 2 is "B"
TokenBytes(tok) == {<<64 + tok>>}
EosSets == {None, Some({1}), Some({2})}
StopTokenSets == {{}, {2}}
MaxLens == {None} \cup {Some(n) : n \in 1..MaxLen}
\* "AB" before "A", or "B" alone
StopStringSets == {<<>>, <<<<65, 66>>, <<65>>>>, <<<<66>>>>}

\* the request of a single Sequence
OneSequenceAmong(others) ==
    /\ competitors = others
    /\ kind = "chat"
    /\ n_seqs = 1
    /\ group = SequenceGroup_new(1, FALSE, TRUE, None)
    /\ lock = 0
    /\ chan = <<>>
    /\ closed = FALSE
    /\ pc = [s \in Members |-> "run"]
    /\ state = [s \in Members |-> Waiting]
    /\ gen = [s \in Members |-> 0]
    /\ interleaved = FALSE

OneSequence == OneSequenceAmong(<<>>)

StopInit ==
    /\ OneSequence
    /\ \E stop_toks \in StopTokenSets, stop_strs \in StopStringSets,
          maxlen \in MaxLens, block_size \in {None, Some(MaxBlockSize)} :
          new_waiting(<<1>>, block_size, stop_toks, stop_strs, maxlen, FALSE)

\* the states the driver gives the Sequence
SeqDriverStates ==
    {RunningCompletion, Done(Canceled)}
        \cup (IF last_is_done # None THEN {Done(last_is_done)} ELSE {})

StopNext ==
    \/ \E tok \in Toks, eos_tok \in EosSets, max_model_len \in 1..MaxModelLen :
          is_done_call(tok, eos_tok, max_model_len)
    \/ /\ ret # None
       /\ Len(tokens) < MaxToks
       /\ \E bytes \in TokenBytes(ret[2]) : add_token(ret[2], -1, bytes, ret[3])
    \/ \E st \in SeqDriverStates : set_state(1, st)

StopSpec == StopInit /\ [][StopNext]_vars

(***************************************************************************)
(* DriverSpec: the generation loop.  The driver calls is_done with the     *)
(* sampled token, then add_token with that token and the result, and       *)
(* generates no further token once a result was not None.                  *)
(***************************************************************************)
DriverInit ==
    /\ OneSequence
    /\ \E stop_toks \in StopTokenSets, stop_strs \in StopStringSets,
          maxlen \in MaxLens \cup {Some(0)},
          block_size \in {None, Some(MaxBlockSize)} :
          new_waiting(<<1>>, block_size, stop_toks, stop_strs, maxlen, FALSE)

DriverNext ==
    \/ /\ last_is_done = None
       /\ ret = None
       /\ \E tok \in Toks, eos_tok \in EosSets,
             max_model_len \in 1..MaxModelLen :
             is_done_call(tok, eos_tok, max_model_len)
    \/ /\ ret # None
       /\ \E bytes \in TokenBytes(ret[2]) : add_token(ret[2], -1, bytes, ret[3])
    \/ \E st \in SeqDriverStates : set_state(1, st)

DriverSpec == DriverInit /\ [][DriverNext]_vars

(***************************************************************************)
(* One Sequence and its tokens (TokSpec): tokens are added for good or     *)
(* temporarily, the prompt is replaced, the caches are written.            *)
(***************************************************************************)
Prompts == {[i \in 1..n |-> 1] : n \in 0..MaxPrompt}

TokInit ==
    /\ OneSequence
    /\ \E toks \in Prompts, is_xlora \in BOOLEAN,
          block_size \in {None} \cup {Some(n) : n \in 1..MaxBlockSize} :
          new_waiting(toks, block_size, {}, <<>>, None, is_xlora)

\* what a forward pass over the tokens leaves in slot 0, or nothing
CacheContents == {None, Some(Len(get_toks))}

TokNext ==
    \/ /\ Len(tokens) < MaxToks
       /\ Len(logprobs) < MaxSteps
       /\ \E bytes \in TokenBytes(1) : add_token(1, -1, bytes, None)
    \/ Len(tokens) < MaxToks /\ add_tmp_tok(1)
    \/ \E n \in 1..n_tmp : remove_tmp_tok(n)
    \/ remove_tmp_tok(Len(tokens) + 1)
    \/ \E toks \in Prompts : set_toks_and_reallocate(toks)
    \/ \E toks \in Prompts : set_prefill_toks(toks)
    \/ reset_prefill_toks
    \/ \E c \in CacheContents : write_cache(c)
    \/ \E c \in CacheContents : write_xlora_cache(c)
    \/ blocks_to_add_new_tok
    \/ logical_token_blocks

TokSpec == TokInit /\ [][TokNext]_vars

(***************************************************************************)
(* One Sequence and its output stream (DeltaSpec): tokens are added with   *)
(* their decoded bytes, and the stream is read with get_delta and          *)
(* peek_delta.                                                             *)
(***************************************************************************)
MaxBytes == 4

\* "A", " ", the two bytes of U+00E9 together and apart, the three bytes of
\* U+FFFD together and apart, and a token without bytes
DeltaTokenBytes ==
    {<<>>, <<65>>, <<Space>>, <<195, 169>>, <<195>>, <<169>>,
     <<239, 191, 189>>, <<239, 191>>, <<189>>}

DeltaInit ==
    /\ OneSequence
    /\ new_waiting(<<1>>, None, {}, <<>>, None, FALSE)

DeltaNext ==
    \/ /\ Len(logprobs) < MaxBytes
       /\ \E bytes \in DeltaTokenBytes, reason \in {None, Eos} :
             /\ Len(completion_bytes) + Len(bytes) <= MaxBytes
             /\ add_token(1, -1, bytes, reason)
    \/ get_delta
    \/ peek_delta_call

DeltaSpec == DeltaInit /\ [][DeltaNext]_vars

(***************************************************************************)
(* PrioSpec: one Sequence that grows token by token while the scheduler    *)
(* passes it over (add_urgency), picks it (reset_urgency) and reads its    *)
(* priority.                                                               *)
(***************************************************************************)
MaxUrgency == 3
MaxPrioLen == 7

PrioInit ==
    /\ OneSequence
    /\ \E toks \in {<<>>, <<1>>, <<1, 1>>} :
          new_waiting(toks, None, {}, <<>>, None, FALSE)

PrioNext ==
    \/ /\ Len(tokens) < MaxPrioLen
       /\ add_token(1, -1, <<>>, None)
    \/ /\ scheduling_urgency < MaxUrgency
       /\ add_urgency
    \/ reset_urgency
    \/ compute_priority_call
    \/ waitlisted_count < MaxUrgency /\ increment_waitlist_count

PrioSpec == PrioInit /\ [][PrioNext]_vars

(***************************************************************************)
(* The predicates on the state of a Sequence (684-716), as what their      *)
(* matches! answers for the state st read from self.state.                 *)
(***************************************************************************)
\* is_running with a slip: the prefill state counts as running
is_running_with_prefill(st) ==
    st \in {RunningCompletion, RunningPrompt, RunningPrefillPrompt}

\* 684-689
is_running(st) == st \in {RunningCompletion, RunningPrompt}

\* 691-696
is_completion(st) == st = RunningCompletion

\* 698-703
is_prompt(st) == st \in {RunningPrompt, RunningPrefillPrompt}

\* 705-707
is_waiting(st) == st = Waiting

\* 709-716
is_finished_paged_attn(st) ==
    st \in {FinishedAborted, FinishedIgnored} \/ st[1] = "Done"

(***************************************************************************)
(* LifeSpec: one Sequence of a chat request from new_waiting on, under a   *)
(* driver that may call any operation with any state at any time.          *)
(***************************************************************************)
MaxLifeSteps == 1

SequenceStates ==
    {Waiting, RunningPrompt, RunningCompletion, RunningPrefillPrompt, Error,
     FinishedAborted, FinishedIgnored, Swapped, Done(Eos), Done(Canceled)}

LifeInit ==
    /\ OneSequence
    /\ \E toks \in Prompts, block_size \in {None, Some(MaxBlockSize)} :
          new_waiting(toks, block_size, {}, <<>>, None, FALSE)

LifeNext ==
    \/ \E st \in SequenceStates : set_state(1, st)
    \/ set_state_Error_value(1)
    \/ set_state_Error_assign(1)
    \* the caller supplies a cache vector of any length
    \/ \E n \in 1..Layers :
          prefill_v2_normal([i \in 1..n |-> None], <<1>>)
    \* the block engine hands over the blocks of the prefix and their pages
    \/ \E physical_blocks \in {<<1>>, <<2>>} :
          prefill_v2_paged(
              append_tokens_to_blocks(PagedAttention(<<>>, None, MaxBlockSize),
                                      <<1>>).logical_token_blocks,
              physical_blocks, <<1>>)
    \/ take_physical_blocks_prefill
    \/ /\ Len(logprobs) < MaxLifeSteps
       /\ \E reason \in {None, Eos} : add_token(1, -1, <<65>>, reason)
    \/ n_tmp < MaxLifeSteps /\ add_tmp_tok(1)
    \/ \E n \in 1..n_tmp : remove_tmp_tok(n)
    \/ get_delta
    \/ peek_delta_call
    \/ is_done_call(1, None, MaxModelLen)
    \/ scheduling_urgency < MaxLifeSteps /\ add_urgency
    \/ reset_urgency
    \/ add_choice_to_group(1)
    \/ update_time_info_prompt_toks(1)
    \/ update_time_info_total_toks(1)
    \/ maybe_send_chat_done_response(1)

LifeSpec == LifeInit /\ [][LifeNext]_vars

(***************************************************************************)
(* SchedSpec: the Sequence waits beside the competitors of one scheduler.  *)
(* A pass runs some eligible sequences, none of lower compute_priority     *)
(* than one it skips, and applies add_urgency to each sequence it skips.   *)
(* A competitor that runs may grow by one token up to MaxPrioLen and may   *)
(* have its urgency reset.                                                 *)
(***************************************************************************)
MaxCompetitors == 1
\* passes after which a Sequence of length 1 or more has overtaken every
\* competitor: each skipped pass closes one of the gaps by 1
MaxPasses == MaxCompetitors * (MaxUrgency + 5) + 1

Competitor(urgency, length) ==
    [scheduling_urgency |-> urgency, len |-> length]

\* 0 names this Sequence, 1.. the competitors
Eligible == (IF state[1] = Waiting THEN {0} ELSE {}) \cup DOMAIN competitors

priority(i) ==
    IF i = 0
    THEN compute_priority
    ELSE priority_of(competitors[i].scheduling_urgency, competitors[i].len)

schedule_pass ==
    /\ SeqAtRun
    /\ state[1] = Waiting
    /\ scheduling_urgency < MaxPasses
    /\ \E run \in (SUBSET Eligible) \ {{}} :
          /\ \A i \in run, j \in Eligible \ run :
                ~f64_lt(priority(i), priority(j))
          /\ state' = IF 0 \in run
                      THEN [state EXCEPT ![1] = RunningPrompt]
                      ELSE state
          /\ scheduling_urgency' = IF 0 \in run
                                   THEN scheduling_urgency
                                   ELSE scheduling_urgency + 1
          /\ \E reset, grow \in BOOLEAN :
                competitors' =
                    [i \in DOMAIN competitors |->
                        LET c == competitors[i]
                        IN  IF i \in run
                            THEN Competitor(
                                     IF reset THEN 0 ELSE c.scheduling_urgency,
                                     IF grow /\ c.len < MaxPrioLen
                                     THEN c.len + 1 ELSE c.len)
                            ELSE Competitor(c.scheduling_urgency + 1, c.len)]
    /\ UNCHANGED <<group, lock, chan, kind, closed, n_seqs, pc, gen,
                   interleaved, prompt_len, tokVars, cacheVars, confVars,
                   stream_idx, deltas, waitlisted_count, ret>>

Competitors ==
    LET C == {Competitor(u, l) : u \in 0..MaxUrgency, l \in 0..MaxPrioLen}
    IN  UNION {[1..n -> C] : n \in 1..MaxCompetitors}

SchedInit ==
    /\ \E others \in Competitors : OneSequenceAmong(others)
    /\ \E toks \in {<<>>, <<1>>, <<1, 1>>} :
          new_waiting(toks, None, {}, <<>>, None, FALSE)

SchedNext == schedule_pass

SchedSpec == SchedInit /\ [][SchedNext]_vars /\ WF_vars(schedule_pass)

(***************************************************************************)
(* Properties of the Group (Spec, FairSpec).                               *)
(***************************************************************************)
\* number of responses of one type sent so far
NumSent(type) == Cardinality({i \in 1..Len(chan) : chan[i].type = type})

\* every member's driver has returned from its last call
AllReturned == \A s \in 1..n_seqs : pc[s] = "done"

\* a member is inside set_state(Error)
InSetStateError == \E s \in 1..n_seqs : pc[s] = "set_state_assign"

\* C1: in a non-streaming chat Group whose members each call
\* add_choice_to_group and then maybe_send_chat_done_response, never more than
\* one Response::Done is on the channel, and exactly one once every member
\* has returned, whatever the interleaving of the calls.
C1_ExactlyOneDoneAnyInterleaving ==
    kind = "chat" =>
        /\ NumSent("Done") <= 1
        /\ AllReturned => NumSent("Done") = 1

\* C1 without the race: once every member has returned, at least one and at
\* most N Response::Done have been sent, and exactly one when no member
\* contributed between another member's add_choice_to_group and that
\* member's maybe_send_chat_done_response.
C1_OneDoneWhenNotInterleaved ==
    (kind = "chat" /\ AllReturned) =>
        /\ NumSent("Done") \in 1..n_seqs
        /\ ~interleaved => NumSent("Done") = 1

\* C1 case without the race: two or more members, calls not interleaved, all returned
C1_Witness ==
    /\ kind = "chat" /\ AllReturned /\ n_seqs >= 2
    /\ ~interleaved /\ NumSent("Done") = 1

\* C2: when a member of a chat or completion Group calls
\* set_state(Error), a done response is eventually emitted.
C2_DoneAfterError ==
    (kind \in {"chat", "completion"} /\ InSetStateError)
        ~> (NumSent("Done") + NumSent("CompletionDone") >= 1)

\* the seven accumulations of a Group
NonStreamingCounts(g) ==
    {Len(g.choices), Len(g.completion_choices), Len(g.image_choices),
     Len(g.speech_pcms), Len(g.raw_choices)}
StreamingCounts(g) ==
    {Len(g.chat_streaming_chunks), Len(g.completion_streaming_chunks)}

\* C3: every accumulation of the Group holds at most n_choices
\* items, in every reachable state.
C3_CountsAtMostTarget ==
    \A c \in NonStreamingCounts(group) \cup StreamingCounts(group) :
        c <= group.n_choices

\* C3 without the race: the non-streaming accumulations hold at most n_choices items;
\* a streaming chunk buffer holds at most n_choices chunks as long as no
\* member pushed a chunk between another member's push and that member's
\* maybe_send_streaming_response.
C3_CountsAtMostTargetWhenNotInterleaved ==
    /\ \A c \in NonStreamingCounts(group) : c <= group.n_choices
    /\ ~interleaved => \A c \in StreamingCounts(group) : c <= group.n_choices

\* C3 case without the race: a streaming buffer filled to n_choices by several members,
\* while another Group member is inside set_state(Error)
C3_Witness ==
    /\ kind = "chat_stream" /\ n_seqs >= 3 /\ ~interleaved
    /\ Len(group.chat_streaming_chunks) = 2
    /\ Len(chan) >= 1
    /\ InSetStateError

DoneItems(g) ==
    CASE kind = "chat" -> g.choices
      [] kind = "completion" -> g.completion_choices
      [] kind = "image" -> g.image_choices
      [] kind = "raw" -> g.raw_choices
      [] OTHER -> <<>>

\* C5: a call of maybe_send_{chat_done,completion_done,image_gen,raw_done}
\* appends a response to the channel only if the accumulation of its kind
\* holds exactly n_choices items when it is called; otherwise it sends
\* nothing, returns and leaves the Group as it was.  Nothing else sends.
C5_EmitOnlyAtTarget ==
    [][ /\ \A s \in 1..n_seqs :
             (/\ kind \in {"chat", "completion", "image", "raw"}
              /\ pc[s] = "send" /\ pc'[s] # "send") =>
                 /\ chan' # chan =>
                       /\ Len(DoneItems(group)) = group.n_choices
                       /\ Len(chan') = Len(chan) + 1
                 /\ Len(DoneItems(group)) # group.n_choices =>
                       /\ chan' = chan
                       /\ group' = group
                       /\ pc'[s] = "done"
        /\ chan' # chan => \E s \in 1..n_seqs : pc[s] = "send"
      ]_vars

\* C5 case: one member returned without sending, a later one sent
C5_Witness ==
    /\ kind = "image" /\ n_seqs >= 2 /\ AllReturned
    /\ Len(chan) = 1
    /\ chan[1].items = group.image_choices

(***************************************************************************)
(* Properties of the stop rules (StopSpec).                                *)
(***************************************************************************)
\* pat occurs somewhere in text
Occurs(pat, text) ==
    \E p \in 0..(Len(text) - Len(pat)) : SubSeq(text, p + 1, p + Len(pat)) = pat

\* the offset of the first occurrence of pat in text
FirstOffset(pat, text) ==
    CHOOSE p \in 0..(Len(text) - Len(pat)) :
        /\ SubSeq(text, p + 1, p + Len(pat)) = pat
        /\ \A q \in 0..(p - 1) : SubSeq(text, q + 1, q + Len(pat)) # pat

\* the indices (from 0) of the stop strings that occur in completion_bytes
OccurringStopStrings ==
    {k \in 0..(Len(stop_strings) - 1) : Occurs(stop_strings[k + 1], completion_bytes)}

Least(S) == CHOOSE x \in S : \A y \in S : x <= y

\* rule i of the precedence order applies to the token
RuleApplies(i, tok, eos_tok, max_model_len) ==
    CASE i = 1 -> eos_tok # None /\ tok \in eos_tok[2]
      [] i = 2 -> state[1] = Done(Canceled)
      [] i = 3 -> tok \in stop_tokens
      [] i = 4 -> max_len # None /\ (Len(tokens) - prompt_len) + 1 >= max_len[2]
      [] i = 5 -> Len(tokens) - prompt_len >= max_model_len
      [] i = 6 -> OccurringStopStrings # {}

\* r is the reason rule i gives
RuleGives(i, r, tok, max_model_len) ==
    CASE i = 1 -> r = Eos
      [] i = 2 -> r = Canceled
      [] i = 3 -> r = StopTok(tok)
      [] i = 4 -> r = Length(max_len[2])
      [] i = 5 -> r = ModelLength(max_model_len)
      [] i = 6 -> r[1] = "StopString"

ApplicableRules(tok, eos_tok, max_model_len) ==
    {i \in 1..6 : RuleApplies(i, tok, eos_tok, max_model_len)}

\* C6: for every token, state and configuration is_done returns the reason
\* of the first rule that applies, in the order Eos, Canceled, StopTok,
\* Length, ModelLength, StopString, and None when no rule applies.
C6_FirstApplicableRule ==
    \A tok \in Toks, eos_tok \in EosSets, max_model_len \in 1..MaxModelLen :
        LET r == is_done(state[1], tok, eos_tok, max_model_len)
            A == ApplicableRules(tok, eos_tok, max_model_len)
        IN  IF A = {} THEN r = None
            ELSE RuleGives(Least(A), r, tok, max_model_len)

\* C6 case: a call answered Length while the model length is reached and a
\* stop string occurs as well
C6_Witness ==
    /\ ret # None
    /\ max_len # None
    /\ ret[3] = Length(max_len[2])
    /\ Len(tokens) - prompt_len >= 1
    /\ OccurringStopStrings # {}

\* C7: when no earlier rule applies and a stop string occurs in
\* completion_bytes, is_done returns StopString with the lowest index of an
\* occurring stop string and the offset of that string's first occurrence;
\* "END" in "hello wEND" gives index 0, offset 7.
C7_LowestIndexFirstOccurrence ==
    /\ find_stop_string(<<<<69, 78, 68>>>>,
                        <<104, 101, 108, 108, 111, 32, 119, 69, 78, 68>>, 0)
          = StopString(0, 7)
    /\ \A tok \in Toks, eos_tok \in EosSets, max_model_len \in 1..MaxModelLen :
          ApplicableRules(tok, eos_tok, max_model_len) = {6}
              => is_done(state[1], tok, eos_tok, max_model_len)
                    = StopString(Least(OccurringStopStrings),
                                 FirstOffset(stop_strings[Least(OccurringStopStrings) + 1],
                                             completion_bytes))

\* C7 case: a call answered stop string 0 at an offset after the first
\* occurrence of stop string 1
C7_Witness ==
    /\ ret # None
    /\ ret[3] = StopString(0, 1)
    /\ OccurringStopStrings = {0, 1}
    /\ FirstOffset(stop_strings[2], completion_bytes) = 0

\* C8: while the state is Done(Canceled) is_done returns a reason for every
\* token, and Canceled for every token outside the EOS set; a step that
\* changes the state changes no token, byte or block.
C8_CanceledSeenAtNextCheck ==
    /\ [](state[1] = Done(Canceled) =>
            \A tok \in Toks, eos_tok \in EosSets,
               max_model_len \in 1..MaxModelLen :
                /\ is_done(state[1], tok, eos_tok, max_model_len) # None
                /\ ~(eos_tok # None /\ tok \in eos_tok[2])
                      => is_done(state[1], tok, eos_tok, max_model_len) = Canceled)
    /\ [][state'[1] # state[1] =>
              /\ tokens' = tokens
              /\ completion_bytes' = completion_bytes
              /\ custom_metadata' = custom_metadata]_vars

\* C8 case: a paged-attention Sequence that has generated is canceled and
\* the next call, for a stop token, answered Canceled
C8_Witness ==
    /\ state[1] = Done(Canceled)
    /\ ret # None
    /\ ret[3] = Canceled
    /\ ret[2] \in stop_tokens
    /\ n_added >= 1
    /\ custom_metadata.variant = "PagedAttention"

(***************************************************************************)
(* Properties of the tokens (TokSpec).                                     *)
(***************************************************************************)
\* a tensor is held in the slot
HoldsTensor(slot) == slot \notin {None, <<"NoXlora">>}

\* C9 as stated: with no prefill override, len() is the prompt length plus
\* the number of add_token calls, whatever the cache slots hold.
C9_LenIsPromptPlusAdded ==
    prefill_prompt_toks = None => len = prompt_len + n_added

\* C9: with no prefill override, len() is the prompt length plus the
\* add_token calls since the prompt was set plus the temporary tokens when
\* is_tmp is set or slot 0 of both caches is empty; otherwise it is one more
\* than dims()[2] of xlora_cache[0], or else of cache[0].
C9_LenFollowsCacheSlots ==
    prefill_prompt_toks = None =>
        len = IF ~is_tmp /\ HoldsTensor(xlora_cache0) THEN xlora_cache0[2] + 1
              ELSE IF ~is_tmp /\ HoldsTensor(cache0) THEN cache0[2] + 1
              ELSE prompt_len + n_added + n_tmp

\* C9 case: after an add_token and a forward pass over all the tokens, len()
\* is one more than the prompt length plus the calls
C9_Witness ==
    /\ prefill_prompt_toks = None
    /\ n_added >= 1
    /\ ~is_tmp
    /\ HoldsTensor(cache0)
    /\ len = prompt_len + n_added + 1

RECURSIVE TokenCount(_)
TokenCount(blocks) ==
    IF blocks = <<>> THEN 0 ELSE Len(Head(blocks).toks) + TokenCount(Tail(blocks))

\* C10: the logical blocks of a paged-attention Sequence hold tokens.len()
\* tokens in all, every block but the last is full, and no block holds more
\* than block_size tokens.
C10_BlocksCoverTokens ==
    custom_metadata.variant = "PagedAttention" =>
        LET blocks == custom_metadata.logical_token_blocks IN
        /\ TokenCount(blocks) = Len(tokens)
        /\ \A i \in 1..(Len(blocks) - 1) : is_full(blocks[i])
        /\ \A i \in 1..Len(blocks) : Len(blocks[i].toks) <= custom_metadata.block_size


\* the block table is present and no call on it has failed
PagedAndSound ==
    custom_metadata.variant = "PagedAttention" /\ pc[1] # "panicked"

\* C11: a block table of capacity B filled by appends from empty holds, for
\* n >= 1 tokens, n \div B + 1 blocks, the first n \div B full and the last
\* with n % B tokens and not full; B appends give (full, empty), B + 1
\* appends give a second block of one token.
C11_BlocksAfterAppends ==
    /\ (PagedAndSound /\ Len(tokens) >= 1) =>
          LET blocks == custom_metadata.logical_token_blocks
              B == custom_metadata.block_size
              n == Len(tokens)
          IN  /\ Len(blocks) = (n \div B) + 1
              /\ \A i \in 1..(n \div B) : Len(blocks[i].toks) = B
              /\ Len(blocks[Len(blocks)].toks) = n % B
              /\ ~is_full(blocks[Len(blocks)])
    /\ \A B \in 1..MaxBlockSize :
          LET empty == PagedAttention(<<>>, None, B)
              atB == append_tokens_to_blocks(empty, [i \in 1..B |-> 1])
              afterB == append_tokens_to_blocks(empty, [i \in 1..(B + 1) |-> 1])
          IN  /\ Len(atB.logical_token_blocks) = 2
              /\ is_full(atB.logical_token_blocks[1])
              /\ is_empty(atB.logical_token_blocks[2])
              /\ Len(afterB.logical_token_blocks[2].toks) = 1

\* C11 case: B + 1 tokens appended to a table of capacity B = 2, the last of
\* them by add_token
C11_Witness ==
    /\ PagedAndSound
    /\ custom_metadata.block_size = 2
    /\ Len(tokens) = 3 /\ n_added >= 1 /\ n_tmp = 0
    /\ Len(custom_metadata.logical_token_blocks) = 2
    /\ Len(custom_metadata.logical_token_blocks[2].toks) = 1

\* the last block of the table
LastBlock == custom_metadata.logical_token_blocks[
                 Len(custom_metadata.logical_token_blocks)]

\* C12 as stated: blocks_to_add_new_tok() is 0 when the last block has spare
\* capacity or is empty, and 1 otherwise.
C12_ZeroWhenSpareOrEmpty ==
    (PagedAndSound /\ custom_metadata.logical_token_blocks # <<>>) =>
        blocks_to_add_new_tok_macro(custom_metadata.logical_token_blocks)
            = IF \/ Len(LastBlock.toks) < custom_metadata.block_size
                 \/ Len(LastBlock.toks) = 0
              THEN 0 ELSE 1

\* C12: blocks_to_add_new_tok() is 1 when the last block holds no token or
\* block_size tokens, and 0 when it holds some but fewer, or when the table
\* has no block.
C12_OneWhenFullOrEmpty ==
    PagedAndSound =>
        blocks_to_add_new_tok_macro(custom_metadata.logical_token_blocks)
            = IF custom_metadata.logical_token_blocks = <<>> THEN 0
              ELSE IF Len(LastBlock.toks) \in {0, custom_metadata.block_size}
              THEN 1 ELSE 0

\* C12 case: a call answered 1 and the last block, behind a full one, is empty
C12_Witness ==
    /\ PagedAndSound
    /\ ret = <<"blocks_to_add_new_tok", 1>>
    /\ Len(custom_metadata.logical_token_blocks) = 2
    /\ Len(LastBlock.toks) = 0

(***************************************************************************)
(* Properties of the output stream (DeltaSpec).                            *)
(***************************************************************************)
\* the bytes after the cursor
Undelivered == SubSeq(completion_bytes, stream_idx + 1, Len(completion_bytes))

\* bs ends in bytes that decode to U+FFFD: a first byte without all of its
\* continuations, a continuation that completes nothing, or U+FFFD itself
TailReplaced(bs) ==
    /\ bs # <<>>
    /\ LET n == Len(bs)
           CompletesTwo == n >= 2 /\ IsLead2(bs[n - 1])
           CompletesThree ==
               n >= 3 /\ IsLead3(bs[n - 2]) /\ IsContinuation(bs[n - 1])
       IN  \/ bs[n] >= 192
           \/ IsContinuation(bs[n]) /\ ~CompletesTwo /\ ~CompletesThree
           \/ n >= 3 /\ SubSeq(bs, n - 2, n) = <<239, 191, 189>>

\* the last call was a get_delta that returned Some, and no add_token since
JustDelivered == ret[1] = "get_delta" /\ ret[2] # None

\* C13 as stated: a get_delta that follows a get_delta which returned
\* Some(text), with no add_token in between, returns None; get_delta returns
\* None whenever no bytes were appended since the cursor advanced.
C13_NoneOnSecondCall ==
    /\ (JustDelivered /\ last_completion_bytes_len >= 1) => peek_delta = None
    /\ (stream_idx >= 1 /\ stream_idx = Len(completion_bytes))
          => peek_delta = None

\* C13: get_delta returns None exactly when the bytes after the cursor end
\* in bytes that decode to U+FFFD; after a get_delta that returned Some the
\* cursor is at the end of completion_bytes, and with the cursor at the end
\* get_delta returns Some of the empty text.
C13_EmptyDeltaOnSecondCall ==
    /\ peek_delta = None <=> TailReplaced(Undelivered)
    /\ JustDelivered => stream_idx = Len(completion_bytes)
    /\ stream_idx = Len(completion_bytes) => peek_delta = Some(<<>>)

\* C13 case: "A" was delivered and the get_delta after it returned Some("")
C13_Witness ==
    /\ completion_bytes = <<65>>
    /\ ret = <<"get_delta", Some(<<>>)>>
    /\ stream_idx = 1

\* C14: a peek_delta call changes no field and returns what get_delta
\* returns in the same state; a get_delta call puts the cursor at the end of
\* completion_bytes when it returns Some, leaves it when it returns None,
\* and changes nothing else.
C14_PeekLeavesCursor ==
    [][ /\ ret'[1] = "peek_delta" =>
              /\ UNCHANGED <<groupVars, prompt_len, tokVars, cacheVars,
                             confVars, cursorVars>>
              /\ \A r \in {None, Some(from_utf8_lossy(Undelivered)),
                           Some(trim_start(from_utf8_lossy(Undelivered)))} :
                    ENABLED (get_delta /\ ret'[2] = r) => ret'[2] = r
        /\ ret'[1] = "get_delta" =>
              /\ UNCHANGED <<groupVars, prompt_len, tokVars, cacheVars,
                             confVars, scheduling_urgency>>
              /\ ret'[2] # None => stream_idx' = Len(completion_bytes)
              /\ ret'[2] = None => stream_idx' = stream_idx
      ]_vars

\* C14 case: after a peek_delta that returned text the cursor is still
\* before that text
C14_Witness ==
    /\ ret = <<"peek_delta", Some(<<233>>)>>
    /\ stream_idx = 1
    /\ completion_bytes = <<65, 195, 169>>

(***************************************************************************)
(* Properties of the Group's responses (Spec).                             *)
(***************************************************************************)
\* the place of member s's choice in the stored completion choices
PlaceOf(g, s) == CHOOSE i \in 1..Len(g.completion_choices) :
                     g.completion_choices[i][2] = s
ScoreOf(g, s) == g.completion_choices[PlaceOf(g, s)][1]

\* the choice of member x goes before that of member y: a higher score, or
\* the same score and contributed earlier
GoesBefore(g, x, y) ==
    \/ ScoreOf(g, x) > ScoreOf(g, y)
    \/ ScoreOf(g, x) = ScoreOf(g, y) /\ PlaceOf(g, x) < PlaceOf(g, y)

\* r is what the claim says get_completion_choices returns for g
BestOfResult(g, r) ==
    LET stored == g.completion_choices
        contributed == {stored[i][2] : i \in 1..Len(stored)}
        chosen == {r[i] : i \in 1..Len(r)}
    IN  IF g.best_of = None
        THEN r = [i \in 1..Len(stored) |-> stored[i][2]]
        ELSE /\ Len(r) = IF g.best_of[2] < Len(stored)
                         THEN g.best_of[2] ELSE Len(stored)
             /\ chosen \subseteq contributed
             /\ \A i \in 1..(Len(r) - 1) : GoesBefore(g, r[i], r[i + 1])
             /\ \A x \in chosen, y \in contributed \ chosen : GoesBefore(g, x, y)

\* C15: get_completion_choices with best_of = K returns min(K, contributed)
\* choices by descending score, equal scores in contribution order (scores
\* 1, 3, 2 with K = 2 give 3, 2); without best_of it returns every choice in
\* contribution order; the stored choices stay as they are, also when the
\* result is sent.
C15_BestOfStableDescending ==
    /\ [](BestOfResult(group, get_completion_choices(group)))
    /\ [](LET g == [SequenceGroup_new(3, FALSE, FALSE, Some(2)) EXCEPT
                       !.completion_choices = <<<<1, 1>>, <<3, 2>>, <<2, 3>>>>]
          IN  get_completion_choices(g) = <<2, 3>>)
    /\ [][(kind = "completion" /\ chan' # chan) =>
             /\ group' = group
             /\ BestOfResult(group, chan'[Len(chan')].items)]_vars

\* C15 case: three choices were contributed, the first with the lowest
\* score and the other two with the same score, and the two best were sent
C15_Witness ==
    /\ kind = "completion"
    /\ group.best_of = Some(2)
    /\ Len(group.completion_choices) = 3
    /\ ScoreOf(group, 1) < ScoreOf(group, 2)
    /\ ScoreOf(group, 2) = ScoreOf(group, 3)
    /\ PlaceOf(group, 1) = 1 /\ PlaceOf(group, 3) = 2
    /\ Len(chan) >= 1
    /\ chan[1].items = <<3, 2>>

\* the chunk buffer of a streaming Group of this kind
ChunkBuffer(g) ==
    IF kind = "chat_stream" THEN g.chat_streaming_chunks
    ELSE g.completion_streaming_chunks

\* the chunks a response carries
ItemsOf(r) == {r.items[i] : i \in 1..Len(r.items)}

\* C16: maybe_send_streaming_response called with exactly n_choices chunks
\* in the buffer sends one response with those chunks in order and empties
\* the buffer; with another number of chunks, or on a Group that is not
\* streaming, it sends nothing and leaves the buffers; no chunk is in two
\* responses.
C16_FlushExactlyOnce ==
    /\ [][\A s \in 1..n_seqs :
             (kind \in StreamKinds /\ pc[s] = "send" /\ pc'[s] # "send") =>
                 IF Len(ChunkBuffer(group)) = group.n_choices
                 THEN /\ Len(chan') = Len(chan) + 1
                      /\ SubSeq(chan', 1, Len(chan)) = chan
                      /\ chan'[Len(chan')].items = ChunkBuffer(group)
                      /\ ChunkBuffer(group') = <<>>
                 ELSE chan' = chan /\ group' = group]_vars
    /\ [](kind \in StreamKinds =>
             \A i, j \in 1..Len(chan) :
                 i # j => ItemsOf(chan[i]) \cap ItemsOf(chan[j]) = {})
    /\ [](LET g == [SequenceGroup_new(1, FALSE, TRUE, None) EXCEPT
                       !.chat_streaming_chunks = <<<<1, 1>>>>,
                       !.completion_streaming_chunks = <<<<1, 1>>>>]
          IN  ~chat_chunks_ready(g) /\ ~completion_chunks_ready(g))

\* C16 case: two members streamed two steps; each step's chunks went out in
\* one response and the buffer is empty again
C16_Witness ==
    /\ kind = "chat_stream" /\ n_seqs = 2
    /\ Len(chan) = 2
    /\ Len(chan[1].items) = 2 /\ Len(chan[2].items) = 2
    /\ group.chat_streaming_chunks = <<>>

(***************************************************************************)
(* Properties of the priority (PrioSpec).                                  *)
(***************************************************************************)
\* q is p + 1 exactly
RaisedByOne(p, q) ==
    /\ p.class = "finite" /\ q.class = "finite"
    /\ q.hi = p.hi + Limb /\ q.lo = p.lo

\* q - (p + 1) in units of 2^-52, for finite p and q
StepError(p, q) == (q.hi - p.hi - Limb) * Limb + (q.lo - p.lo)

\* the distance between q and the next f64, in units of 2^-52
Ulp(q) == pow2(excess_bits(q.hi))

IsPowerOfTwo(n) == \E k \in 0..4 : n = pow2(k)

\* a step of add_urgency at a fixed length
UrgencyStep == scheduling_urgency' = scheduling_urgency + 1 /\ len' = len

\* C17 as stated: each add_urgency at a fixed length raises the priority by
\* exactly 1; length 4 and urgency 0 give priority 2; at equal length the
\* larger urgency has the strictly larger priority.
C17_UrgencyStepExactlyOne ==
    /\ [][UrgencyStep => RaisedByOne(compute_priority, compute_priority')]_vars
    /\ []((len = 4 /\ scheduling_urgency = 0) => compute_priority = as_f64(2))
    /\ [](\A u1, u2 \in 0..MaxUrgency :
             u1 < u2 => f64_lt(priority_of(u1, len), priority_of(u2, len)))

\* C17: at a length of 1 or more each add_urgency raises the priority by 1
\* to within one unit in the last place of the result, and by exactly 1 when
\* the length is a power of two; length 4 and urgency 0 give priority 2; at
\* equal length of 1 or more the larger urgency has the strictly larger
\* priority; at length 0 the priority is -inf at every urgency.
C17_UrgencyStepWithinRounding ==
    /\ [][UrgencyStep =>
             IF len >= 1
             THEN /\ f64_lt(compute_priority, compute_priority')
                  /\ StepError(compute_priority, compute_priority')
                         \in (0 - Ulp(compute_priority'))..Ulp(compute_priority')
                  /\ IsPowerOfTwo(len) =>
                         RaisedByOne(compute_priority, compute_priority')
             ELSE compute_priority = NegInf /\ compute_priority' = NegInf]_vars
    /\ []((len = 4 /\ scheduling_urgency = 0) => compute_priority = as_f64(2))
    /\ [](\A u1, u2 \in 0..MaxUrgency :
             u1 < u2 =>
                 IF len >= 1
                 THEN f64_lt(priority_of(u1, len), priority_of(u2, len))
                 ELSE priority_of(u1, len) = priority_of(u2, len))

\* C17 case: a Sequence of length 5 was passed over twice and its priority
\* read: the second pass raised the priority by less than 1
C17_Witness ==
    /\ len = 5 /\ scheduling_urgency = 2
    /\ ret = <<"compute_priority", compute_priority>>
    /\ f64_lt(priority_of(1, 5), ret[2])
    /\ StepError(priority_of(1, 5), ret[2]) < 0

(***************************************************************************)
(* Properties of add_token (StopSpec).                                     *)
(***************************************************************************)
\* the tokens the blocks hold, first block first
RECURSIVE BlockToks(_)
BlockToks(blocks) ==
    IF blocks = <<>> THEN <<>>
    ELSE blocks[1].toks \o BlockToks(Tail(blocks))

\* the block table gained tok at its end (a Sequence without paged
\* attention has no table)
BlocksAppended(tok) ==
    IF custom_metadata.variant = "PagedAttention"
    THEN /\ custom_metadata'.variant = "PagedAttention"
         /\ BlockToks(custom_metadata'.logical_token_blocks)
               = Append(BlockToks(custom_metadata.logical_token_blocks), tok)
    ELSE custom_metadata' = custom_metadata

\* C18: add_token(tok, bytes, reason), called with the token and the reason
\* of the last is_done, appends tok to tokens, logprobs and the block table;
\* with reason Eos or StopTok it leaves completion_bytes and
\* last_completion_bytes_len, with any other reason or none it appends bytes
\* and sets last_completion_bytes_len to their length.
C18_StopTokenBytesSkipped ==
    [][tokens' # tokens =>
          LET tok == ret[2]
              reason == ret[3]
          IN  /\ tokens' = Append(tokens, tok)
              /\ logprobs' = Append(logprobs, <<tok, -1>>)
              /\ BlocksAppended(tok)
              /\ IF reason = Eos \/ reason[1] = "StopTok"
                 THEN /\ completion_bytes' = completion_bytes
                      /\ last_completion_bytes_len' = last_completion_bytes_len
                 ELSE /\ completion_bytes' = completion_bytes \o <<64 + tok>>
                      /\ last_completion_bytes_len' = 1]_vars

\* C18 case: of three tokens added to a paged Sequence, the one that matched
\* a stop token left no bytes and the one that ended on a stop string did
C18_Witness ==
    /\ custom_metadata.variant = "PagedAttention"
    /\ Len(tokens) = 4
    /\ Len(completion_bytes) = 2
    /\ \E i \in 1..Len(logprobs) : logprobs[i][1] \in stop_tokens
    /\ last_is_done[1] = "StopString"

(***************************************************************************)
(* Properties of set_state (FairSpec).                                     *)
(***************************************************************************)
\* C19: a member that calls set_state(Error) enters Error with the Group's
\* n_choices one lower (floored at 0); a set_state with any other state
\* leaves every field of the Group unchanged.
C19_ErrorLowersTarget ==
    /\ \A s \in Members, n \in 0..MaxChoices :
          (pc[s] = "set_state_assign" /\ group.n_choices = n)
              ~> (state[s] = Error /\ group.n_choices = saturating_sub(n, 1))
    /\ [][\A s \in 1..n_seqs :
             (state'[s] # state[s] /\ state'[s] # Error) => group' = group]_vars

(***************************************************************************)
(* Properties of the failing calls (TokSpec).                              *)
(***************************************************************************)
\* the call in progress failed
Panicked == pc[1] = "panicked"

\* the Sequence has a block table that is empty or whose last block holds
\* no token
NothingToPop ==
    /\ custom_metadata.variant = "PagedAttention"
    /\ \/ custom_metadata.logical_token_blocks = <<>>
       \/ is_empty(LastBlock)

Accumulated(g) ==
    CASE kind = "speech" -> g.speech_pcms
      [] kind \in StreamKinds -> ChunkBuffer(g)
      [] OTHER -> DoneItems(g)

\* the rule of emission: exactly n_choices items have arrived
EmissionCondition(g) == Len(Accumulated(g)) = g.n_choices

\* member s returns from its maybe_send_* call in this step
SendReturns(s) == pc[s] = "send" /\ pc'[s] # "send"

\* C21: on a closed channel a maybe_send_* call whose emission condition
\* holds returns an error, a call whose emission condition does not hold
\* returns Ok, and either way nothing is sent and no other member and no
\* Sequence changes.
C21_ClosedChannelGivesError ==
    [][\A s \in 1..n_seqs :
          (closed /\ SendReturns(s)) =>
              /\ pc'[s] = IF EmissionCondition(group) THEN "failed"
                          ELSE IF kind \in StreamKinds THEN "run" ELSE "done"
              /\ chan' = chan
              /\ \A o \in Members \ {s} : pc'[o] = pc[o]
              /\ UNCHANGED <<state, gen, prompt_len, seqVars>>]_vars

(***************************************************************************)
(* Properties of the critical section of set_state (Spec).                 *)
(***************************************************************************)
\* the members whose state is Error
InError == {s \in 1..n_seqs : state[s] = Error}

\* C22: a member inside set_state(Error) never waits for the Group's guard
\* while its own call holds it, and n_choices is lower than at creation by
\* the number of members that entered Error.
C22_ErrorInOneCriticalSection ==
    /\ \A s \in 1..n_seqs : pc[s] = "set_state_assign" => lock # s
    /\ group.n_choices = n_seqs - Cardinality(InError)

(***************************************************************************)
(* Properties of the delivery of chunks (FairSpec).                        *)
(***************************************************************************)
\* the chunk of member s for its step n waits in the buffer
Buffered(s, n) ==
    \E i \in 1..Len(ChunkBuffer(group)) : ChunkBuffer(group)[i] = <<s, n>>

\* a response on the channel carries the chunk
Delivered(s, n) ==
    /\ kind \in StreamKinds
    /\ \E i \in 1..Len(chan) : <<s, n>> \in ItemsOf(chan[i])

\* C23: in a streaming Group whose members call
\* maybe_send_streaming_response after every push, every chunk pushed is
\* eventually carried by a chunk response, also when members finish at
\* different steps or call set_state(Error).
C23_ChunksEventuallyDelivered ==
    \A s \in Members, n \in 1..MaxSteps :
        (kind \in StreamKinds /\ Buffered(s, n)) ~> Delivered(s, n)

(***************************************************************************)
(* Properties of the state of a Sequence (LifeSpec).                       *)
(***************************************************************************)
IsTerminal(st) == st = Error \/ st[1] = "Done"

\* the edges of the lifecycle; the out-of-band states are entered from any
\* state that is not terminal, and Swapped is left for any state
LifecycleEdge(a, b) ==
    \/ a = Waiting /\ b = RunningPrefillPrompt
    \/ a = RunningPrefillPrompt /\ b \in {RunningPrompt, RunningCompletion}
    \/ a \in {RunningPrompt, RunningCompletion} /\ b[1] = "Done"
    \/ b \in {Swapped, FinishedAborted, FinishedIgnored, Error}
    \/ a = Swapped

C25_CreatedWaitingAndStateFrame ==
    /\ state[1] = Waiting
    /\ scheduling_urgency = 0 /\ waitlisted_count = 0 /\ stream_idx = 0
    /\ custom_metadata.variant = "PagedAttention" =>
          BlockToks(custom_metadata.logical_token_blocks) = tokens
    /\ [][(prefill_prompt_toks = None /\ prefill_prompt_toks' # None) =>
             /\ state'[1] = RunningPrefillPrompt
             /\ prefill_prompt_toks' = Some(<<1>>)]_vars
    /\ [][(\/ tokens' # tokens
           \/ stream_idx' # stream_idx
           \/ ret' # ret
           \/ group' # group) => state' = state]_vars

\* C25 case: a paged Sequence that was given a token and then prefilled by
\* prefill_v2_paged is RunningPrefillPrompt with the override installed
C25_Witness ==
    /\ state[1] = RunningPrefillPrompt
    /\ prefill_prompt_toks = Some(<<1>>)
    /\ custom_metadata.variant = "PagedAttention"
    /\ custom_metadata.physical_blocks_prefill = Some(<<1>>)
    /\ Len(logprobs) = 1

\* C26 as stated: no operation on a Sequence lowers its scheduling urgency
C26_UrgencyNeverDecreases ==
    [][scheduling_urgency' >= scheduling_urgency]_vars

\* C26: a step leaves the scheduling urgency as it is, raises it by one
\* (add_urgency) or sets it to 0 (reset_urgency); a step that lowers it
\* changes nothing else, and add_token, prefill_v2_* and set_state, which
\* change tokens, the prefill override or the state, leave it as it is.
C26_UrgencyRaisedByOneOrReset ==
    /\ [][scheduling_urgency' \in
             {scheduling_urgency, scheduling_urgency + 1, 0}]_vars
    /\ [][scheduling_urgency' < scheduling_urgency =>
             UNCHANGED <<groupVars, prompt_len, tokVars, cacheVars, confVars,
                         stream_idx, deltas, waitlisted_count, ret>>]_vars
    /\ [][(\/ tokens' # tokens
           \/ prefill_prompt_toks' # prefill_prompt_toks
           \/ state' # state) =>
             scheduling_urgency' = scheduling_urgency]_vars

\* C26 case: the urgency was raised and survived add_token, a prefill and
\* set_state
C26_Witness ==
    /\ scheduling_urgency = 1
    /\ Len(logprobs) = 1
    /\ prefill_prompt_toks # None
    /\ state[1] = RunningCompletion

C28_DraftRoundTrip ==
    (custom_metadata.variant = "PagedAttention" /\ SeqAtRun) =>
        \A n \in 1..MaxBlockSize :
            LET drafts == [i \in 1..n |-> 1]
                added == append_tokens_to_blocks(custom_metadata, drafts)
                removed == remove_tokens_from_blocks(added, n)
            IN  /\ SubSeq(tokens \o drafts, 1, Len(tokens \o drafts) - n)
                     = tokens
                /\ removed[2]
                /\ removed[1] = custom_metadata

\* a step of add_tmp_tok or add_token on a paged-attention Sequence: both
\* append the last of tokens' to the block table
AppendStep ==
    /\ custom_metadata.variant = "PagedAttention"
    /\ \/ n_tmp' = n_tmp + 1
       \/ Len(logprobs') = Len(logprobs) + 1

\* C29 as stated: the token goes into the last block only when that block
\* exists and is neither full nor empty; otherwise a new block is allocated
\* and the token goes into the new block
C29_AppendsOnlyToPartlyFilled ==
    [][AppendStep =>
          LET blocks == custom_metadata.logical_token_blocks
              after == custom_metadata'.logical_token_blocks
              k == Len(blocks)
              tok == tokens'[Len(tokens')]
          IN  IF k > 0 /\ ~is_full(blocks[k]) /\ ~is_empty(blocks[k])
              THEN /\ Len(after) >= k
                   /\ after[k].toks = Append(blocks[k].toks, tok)
              ELSE /\ Len(after) > k
                   /\ SubSeq(after, 1, k) = blocks
                   /\ after[k + 1].toks = <<tok>>]_vars

\* C29: the token goes into the last block whenever the table has one, also
\* when that block is empty, and into a new first block when the table has
\* none; the blocks before it are left alone; when the block that took the
\* token has become full, one new empty block is allocated behind it
C29_AppendsToLastThenAllocates ==
    [][AppendStep =>
          LET blocks == custom_metadata.logical_token_blocks
              after == custom_metadata'.logical_token_blocks
              k == Len(blocks)
              at == IF k = 0 THEN 1 ELSE k
              tok == tokens'[Len(tokens')]
          IN  /\ Len(after) >= at
              /\ after[at].toks =
                    Append(IF k = 0 THEN <<>> ELSE blocks[k].toks, tok)
              /\ SubSeq(after, 1, at - 1) = SubSeq(blocks, 1, at - 1)
              /\ IF is_full(after[at])
                 THEN /\ Len(after) = at + 1
                      /\ after[at + 1] =
                            LogicalTokenBlock_new(custom_metadata.block_size)
                 ELSE Len(after) = at]_vars

\* C29 case: a draft token went into the empty block behind a full one and
\* did not fill it
C29_Witness ==
    /\ custom_metadata.variant = "PagedAttention"
    /\ n_tmp = 1
    /\ Len(custom_metadata.logical_token_blocks) = 2
    /\ is_full(custom_metadata.logical_token_blocks[1])
    /\ Len(custom_metadata.logical_token_blocks[2].toks) = 1
    /\ ~is_full(custom_metadata.logical_token_blocks[2])

\* C30: under the generation loop a Sequence with max_len = L never holds
\* more than L generated tokens, and holds exactly L after the add_token
\* that carried the stop reason Length(L)
C30_NeverMoreThanMaxLen ==
    max_len # None =>
        /\ generated_length <= max_len[2]
        /\ last_is_done = Length(max_len[2]) => generated_length = max_len[2]

\* the bytes of completion_bytes behind the cursor
Suffix == SubSeq(completion_bytes, stream_idx + 1, Len(completion_bytes))

\* bs ends inside a code point of two or three bytes
IncompleteTail(bs) ==
    LET n == Len(bs) IN
    \/ n >= 1 /\ (IsLead2(bs[n]) \/ IsLead3(bs[n]))
    \/ n >= 2 /\ IsLead3(bs[n - 1]) /\ IsContinuation(bs[n])

\* the number of bytes of the well-formed code point that bs ends with, 0
\* when it ends with none
TailLen(bs) ==
    LET n == Len(bs) IN
    IF n >= 1 /\ bs[n] < 128 THEN 1
    ELSE IF n >= 2 /\ IsLead2(bs[n - 1]) /\ IsContinuation(bs[n]) THEN 2
    ELSE IF n >= 3 /\ IsLead3(bs[n - 2]) /\ IsContinuation(bs[n - 1])
                   /\ IsContinuation(bs[n]) THEN 3
    ELSE 0

\* bs ends with the last byte of a well-formed code point
CompleteTail(bs) == TailLen(bs) > 0

\* the bytes of the last add_token completed a code point that the suffix
\* before them ended inside
CompletedTail ==
    /\ last_completion_bytes_len >= 1
    /\ TailLen(Suffix) > last_completion_bytes_len

\* a step of get_delta that returned something new
GetDeltaStep == ret' # ret /\ ret'[1] = "get_delta"

\* the delta of the whole suffix; the first delta loses its leading spaces
WholeSuffix ==
    IF stream_idx = 0 THEN trim_start(from_utf8_lossy(Suffix))
    ELSE from_utf8_lossy(Suffix)

\* while the suffix ends inside a code point, get_delta and peek_delta
\* return None and leave the cursor
WithheldWhileIncomplete ==
    [][(Len(logprobs') = Len(logprobs) /\ IncompleteTail(Suffix)) =>
          /\ stream_idx' = stream_idx
          /\ ret'[1] \in {"get_delta", "peek_delta"}
          /\ ret'[2] = None]_vars

\* C31: get_delta and peek_delta hold back a suffix that ends
\* inside a code point, and once later bytes have completed the code point
\* get_delta returns all of the suffix and moves the cursor to the end
C31_WithheldThenWhole ==
    /\ WithheldWhileIncomplete
    /\ [][(GetDeltaStep /\ CompletedTail) =>
             /\ ret'[2] = Some(WholeSuffix)
             /\ stream_idx' = Len(completion_bytes)]_vars

\* the handles assigned by prefill_v2_paged and not yet taken
PendingBlocks ==
    IF custom_metadata.variant = "PagedAttention"
    THEN custom_metadata.physical_blocks_prefill
    ELSE None

\* a step of take_physical_blocks_prefill that returned something new
TakeStep == ret' # ret /\ ret'[1] = "take_physical_blocks_prefill"

\* C32: nothing is pending before a prefill or without paged attention;
\* take_physical_blocks_prefill returns what is pending and leaves nothing
\* pending, so a later call returns None; only prefill_v2_paged makes
\* handles pending
C32_PendingTakenOnce ==
    /\ PendingBlocks = None
    /\ [][TakeStep => ret'[2] = PendingBlocks /\ PendingBlocks' = None]_vars
    /\ [][PendingBlocks' # PendingBlocks =>
             \/ PendingBlocks' = None /\ ret'[1] = "take_physical_blocks_prefill"
             \/ /\ PendingBlocks' # None
                /\ state'[1] = RunningPrefillPrompt
                /\ prefill_prompt_toks' # None]_vars
    /\ [](custom_metadata.variant # "PagedAttention" => PendingBlocks = None)

\* C32 case: the handles assigned by prefill_v2_paged were returned and
\* nothing is pending any more
C32_Witness ==
    /\ custom_metadata.variant = "PagedAttention"
    /\ ret = <<"take_physical_blocks_prefill", Some(<<2>>)>>
    /\ prefill_prompt_toks # None
    /\ PendingBlocks = None

\* C33: in every state of a Sequence created with Layers layers,
\* normal_cache has exactly Layers slots, also after prefill_v2_normal
C33_SlotsEqualLayers ==
    Len(normal_cache) = Layers

\* C34: an image or speech response is sent only when n_choices items of
\* its kind have arrived; a speech response is sent only with exactly one
\* segment, and with any other count the call fails loudly and sends nothing
C34_ModalityEmitsWhenAllArrived ==
    [][\A s \in 1..n_seqs :
          (kind \in {"image", "speech"} /\ SendReturns(s)) =>
              /\ chan' # chan =>
                    /\ EmissionCondition(group)
                    /\ kind = "speech" => Len(group.speech_pcms) = 1
              /\ (kind = "speech" /\ Len(group.speech_pcms) # 1) =>
                    pc'[s] = "panicked" /\ chan' = chan]_vars

\* C35: when a member returns from its contribution, of whatever
\* kind, the Group's total_prompt_toks is the member's prompt length and its
\* total_toks is the member's len()
C35_ContributionUpdatesUsage ==
    [][\A s \in 1..n_seqs :
          (pc[s] # "send" /\ pc'[s] = "send") =>
              /\ group'.total_prompt_toks = prompt_len
              /\ group'.total_toks = member_len(s)']_vars

LeadingSpaces(text) == Len(text) - Len(trim_start(text))

\* the decoding of the bytes before the cursor, without the leading spaces
\* of the delta that ended at byte end
DeliveredUpTo(end) ==
    LET whole == from_utf8_lossy(SubSeq(completion_bytes, 1, stream_idx))
        k == LeadingSpaces(from_utf8_lossy(SubSeq(completion_bytes, 1, end)))
    IN  SubSeq(whole, k + 1, Len(whole))

\* C37 as stated: the Some results of get_delta, joined in call order, are
\* the decoding of the bytes before the cursor without the leading spaces of
\* the first of them
C37_DeltasAreThePrefix ==
    deltas.text = IF deltas.first = None THEN <<>>
                  ELSE DeliveredUpTo(deltas.first[2])

\* C37: the Some results of get_delta, joined in call order, are the
\* decoding of the bytes before the cursor without the leading spaces of the
\* first of them that was taken from a buffer with bytes in it; the results
\* before that one are empty
C37_DeltasAreThePrefixTrimmedOnce ==
    /\ deltas.text = IF deltas.moved = None THEN <<>>
                     ELSE DeliveredUpTo(deltas.moved[2])
    /\ deltas.moved = None <=> stream_idx = 0

\* C37 case: three deltas went out, the first from an empty buffer, the
\* second " A" without its space and the third with its space, from bytes
\* that came in between the calls
C37_Witness ==
    /\ deltas.first = Some(0)
    /\ deltas.moved = Some(2)
    /\ stream_idx = 4
    /\ completion_bytes = <<Space, 65, Space, 65>>
    /\ deltas.text = <<65, Space, 65>>

\* bs starts with the bytes of as
IsPrefix(as, bs) == Len(as) <= Len(bs) /\ SubSeq(bs, 1, Len(as)) = as

\* C38: the cursor lies within completion_bytes, it never moves back, and
\* the bytes already in completion_bytes stay as they are
C38_CursorWithinAppendOnlyBytes ==
    /\ [](stream_idx >= 0 /\ stream_idx <= Len(completion_bytes))
    /\ [][/\ stream_idx' >= stream_idx
          /\ IsPrefix(completion_bytes, completion_bytes')]_vars

\* C38 case: the cursor has moved twice and a delta is being withheld behind
\* it
C38_Witness ==
    /\ deltas.moved = Some(1)
    /\ stream_idx = 2
    /\ Len(completion_bytes) = 3
    /\ ret = <<"get_delta", None>>

(***************************************************************************)
(* Properties of the block count asked before a token (TokSpec).           *)
(***************************************************************************)
\* the block table is the one that appending the tokens one by one to an
\* empty table builds
BuiltByAppends ==
    /\ PagedAndSound
    /\ custom_metadata.logical_token_blocks =
          append_tokens_to_blocks(
              PagedAttention(<<>>, None, custom_metadata.block_size),
              tokens).logical_token_blocks

\* C39: on a block table built by appends alone, blocks_to_add_new_tok()
\* returns 1 when the number of tokens is a multiple of block_size and 0
\* when it is not, and 0 when there is no token and so no block
C39_OneAtMultiplesOfBlockSize ==
    [][(/\ BuiltByAppends
        /\ ret' # ret
        /\ ret'[1] = "blocks_to_add_new_tok") =>
          ret'[2] = IF tokens = <<>> THEN 0
                    ELSE IF Len(tokens) % custom_metadata.block_size = 0
                    THEN 1 ELSE 0]_vars

\* C39 case: a prompt of one token and one add_token fill a block of two,
\* and the call answers 1
C39_Witness ==
    /\ BuiltByAppends
    /\ custom_metadata.block_size = 2
    /\ prompt_len = 1 /\ n_added = 1 /\ n_tmp = 0
    /\ Len(tokens) = 2
    /\ ret = <<"blocks_to_add_new_tok", 1>>

(***************************************************************************)
(* Properties of the predicates on the state (LifeSpec).                   *)
(***************************************************************************)
\* C40: in every state of a Sequence, the one it is in included, no two of
\* is_waiting, is_running and is_finished_paged_attn hold together;
\* is_running holds in RunningPrompt and RunningCompletion only, is_prompt in
\* RunningPrompt and RunningPrefillPrompt only, is_finished_paged_attn in
\* Done(_), FinishedAborted and FinishedIgnored only; and none of the
\* predicates holds in Error or Swapped
C40_StatePredicatesPartition ==
    \A st \in SequenceStates \cup {state[1]} :
        /\ ~(is_waiting(st) /\ is_running(st))
        /\ ~(is_waiting(st) /\ is_finished_paged_attn(st))
        /\ ~(is_running(st) /\ is_finished_paged_attn(st))
        /\ is_running(st) <=> st \in {RunningPrompt, RunningCompletion}
        /\ is_prompt(st) <=> st \in {RunningPrompt, RunningPrefillPrompt}
        /\ is_finished_paged_attn(st) <=>
              \/ st \in {FinishedAborted, FinishedIgnored}
              \/ st \in {Done(reason) : reason \in {Eos, Canceled}}
        /\ st \in {Error, Swapped} =>
              /\ ~is_waiting(st) /\ ~is_running(st) /\ ~is_completion(st)
              /\ ~is_prompt(st) /\ ~is_finished_paged_attn(st)

\* C40 case: the Sequence is in RunningPrefillPrompt after a prefill, which
\* is_prompt accepts and is_running does not
C40_Witness ==
    /\ state[1] = RunningPrefillPrompt
    /\ prefill_prompt_toks # None
    /\ is_prompt(state[1])
    /\ ~is_running(state[1])

====
